---- MODULE Spec2Model ----
(***************************************************************************)
(* Model of the gmn agent loop (legacy REPL): cmd/chat.go                  *)
(* processWithToolLoop, generateStreamWithFallback, the confirmation       *)
(* allow-list (internal/confirmation/prompt.go) and the fallback model     *)
(* list (cmd/root.go).                                                     *)
(*                                                                         *)
(* Strings that the code builds by concatenation are tuples of their       *)
(* pieces; a Go pointer is a sequence of length 0 (nil) or 1.              *)
(***************************************************************************)
EXTENDS Integers, Sequences, FiniteSets, TLC

(***************************************************************************)
(* Bounds of the model                                                     *)
(***************************************************************************)
\* submits (REPL input lines) per session
MaxSubmits == 2
\* tool_call events a freely behaving backend emits per session
MaxToolCalls == 2
\* text chunks per stream
MaxChunks == 1
\* text chunks per stream of a backend that only sends text
MaxPlainChunks == 2
\* text chunks per stream of a one-shot run
MaxRunChunks == 2
\* calls on the session store
MaxStoreOps == 4
\* sessions made by NewSession
MaxSessions == 2
\* seconds the clock is moved on while the store is idle
MaxSeconds == 1
\* messages sent in a TUI run
MaxTuiSubmits == 2
\* times the conversation is cleared or replaced by another session's in a TUI run
MaxTuiClears == 1
\* GenerateStream calls of a TUI run against a freely behaving backend
MaxTuiCalls == 2
\* keys pressed in one confirmation prompt
MaxPromptKeys == 3
\* the largest finite timeout argument given to the shell tool, in seconds
MaxTimeoutArg == 302

(***************************************************************************)
(* Program constants                                                       *)
(***************************************************************************)
maxIterations == 10

FallbackModels == <<"gemini-3-pro-preview", "gemini-3-flash-preview", "gemini-2.5-flash">>

ModelFreeDefault == "gemini-2.5-flash"

AvailableModels == {"gemini-3-pro-preview", "gemini-3-flash-preview", "gemini-2.5-flash", "gemini-2.5-pro"}

\* built-in tools of the registry and whether they ask for confirmation
RegisteredTools == {"read_file", "shell"}

\* a name the model may ask for that the registry does not hold
UnknownTools == {"bogus"}

RequiresConfirmation(name) == name \in {"shell"}

OutcomeProceedOnce == "proceed_once"
OutcomeProceedAlways == "proceed_always"
OutcomeCancel == "cancel"
Outcomes == {OutcomeProceedOnce, OutcomeProceedAlways, OutcomeCancel}

(***************************************************************************)
(* Data: api.Part, api.Content, api.StreamEvent                            *)
(***************************************************************************)
TextAlphabet == {"a", "b"}
TextChunks == {<<c>> : c \in TextAlphabet}
ThoughtSignatures == {"sig"}
NoID == <<>>

TextPart(t) == [Text |-> t, FunctionCall |-> <<>>, FunctionResp |-> <<>>, ThoughtSignature |-> ""]

FunctionRespPart(id, name, response) ==
    [Text |-> <<>>, FunctionCall |-> <<>>,
     FunctionResp |-> <<[ID |-> id, Name |-> name, Response |-> response]>>,
     ThoughtSignature |-> ""]

\* api.Part{FunctionCall: event.ToolCall}: a part built locally, no signature
BarePart(fc) == [Text |-> <<>>, FunctionCall |-> <<fc>>, FunctionResp |-> <<>>, ThoughtSignature |-> ""]

\* the part the backend sent with the call, thought_signature included
SignedPart(fc, sig) == [Text |-> <<>>, FunctionCall |-> <<fc>>, FunctionResp |-> <<>>, ThoughtSignature |-> sig]

Content(role, part) == [Role |-> role, Parts |-> <<part>>]

IsFunctionCall(c) == c.Parts[1].FunctionCall # <<>>
IsFunctionResp(c) == c.Parts[1].FunctionResp # <<>>
IsText(c) == ~IsFunctionCall(c) /\ ~IsFunctionResp(c)

\* a tool_call stream event: ToolCall, and ToolCallPart (nil or the full part)
ToolCallEvent(fc, part) == [Type |-> "tool_call", ToolCall |-> fc, ToolCallPart |-> part]

CancelledResponse == <<"error", "operation cancelled by user">>
UnknownToolResponse(name) == <<"error", "unknown tool: ", name>>
ExecErrorResponse == <<"error", "exec failed">>
ExecOkResponse == <<"result", "ok">>

Usage == [PromptTokenCount |-> 3, CandidatesTokenCount |-> 2]

ErrMaxIterations == <<"max tool iterations (%d) reached", maxIterations>>
ErrConfirmation == <<"confirmation error: %w">>
ErrStreamOpen == <<"stream open failed">>
ErrStreamEvent == <<"stream error event">>
ErrStreamEventRetryable == <<"stream error event", "503 UNAVAILABLE">>
StreamErrors == {ErrStreamEvent, ErrStreamEventRetryable}
ErrWrite == <<"formatter write error">>
NoError == <<"nil">>
NotReturned == <<"running">>


UserTexts == {<<"q">>}

(***************************************************************************)
(* State                                                                   *)
(***************************************************************************)
VARIABLES
    history,                \* []api.Content of the REPL session
    allowedTools,           \* AllowList.allowedTools, as the set of names mapped to true
    yoloMode,               \* --yolo
    effectiveModel,         \* the REPL's current model
    sessionTokens,          \* token totals
    pc,                     \* position of processWithToolLoop: idle, iterate, stream, tools
    modelName,              \* processWithToolLoop's modelName
    i,                      \* loop counter of processWithToolLoop
    historyLenBefore,       \* len(*history) after the user turn was appended
    success,                \* the deferred revert's flag
    fullResponse,           \* text accumulated in this iteration
    pendingToolCallParts,   \* parts collected from this iteration's stream
    next,                   \* index of the pending part the tool loop is at
    streamPos,              \* "events", or "done" once the done event was read
    chunks,                 \* text chunks read from this stream
    result,                 \* what the last processWithToolLoop call returned
    script,                 \* how backend, user and tools behave in this call
    clock,                  \* time.Now().UnixNano()
    nextCallID,             \* next function-call id the backend hands out
    submits,                \* processWithToolLoop calls so far
    freeCalls,              \* tool_call events emitted by the freely behaving backend
    histBefore,             \* history when the current call started
    allowBefore,            \* allow-list when the current call started
    genCalls,               \* client.GenerateStream invocations, this call
    streamsOpened,          \* streams opened, this call
    emitted,                \* tool_call events read, this call, in order
    resolved                \* this call's tool calls gone through so far, in order: tool
                            \* name, whether it was on the allow-list, the prompt's
                            \* outcome ("none": no prompt), whether Execute ran, the
                            \* response

VARIABLES
    written                 \* text chunks written to the formatter from the current stream

VARIABLES
    fbModel,                \* generateStreamWithFallback on its own: the model asked for
    fbRes,                  \* ... what the successive GenerateStream calls answer
    fbOut                   \* ... what it returned, <<>> before the call

VARIABLES
    rsPos,                  \* runStreamingWithFallback: off, open, stream, returned
    rsList,                 \* ... its fallbackModels
    rsAttempt,              \* ... the loop's attempt, counted from 1
    rsModel,                \* ... currentModel, req.Model
    rsChunks,               \* ... text events read from the current stream
    rsOut,                  \* ... what was written to the output, with the model it came from
    rsResult                \* ... what it returned

VARIABLES
    files,                  \* session store: the files of sessionsDir, by name without ".json"
    currentID,              \* Manager.currentID
    stNow,                  \* the wall clock read by time.Now()
    stOps,                  \* store operations made
    stLast,                 \* the last store operation: its argument and what it returned
    currentSession,         \* the session of the chat, a pointer: empty when nil
    stCreated               \* sessions made by NewSession

VARIABLES
    appHistory,             \* TUI: App.history
    appLoading,             \* ... App.loading
    appTokens,              \* ... App.inputTokens, App.outputTokens
    appAllowList,           \* ... App.allowList
    appYolo,                \* ... App.config.YoloMode
    appCmds,                \* ... the commands (tea.Cmd) that are running
    appMsgs,                \* ... the messages the commands returned, not yet handled by Update
    appScript,              \* ... how the backend behaves in this run
    appSubmits,             \* ... messages the user sent
    appClears,              \* ... times the user cleared the conversation
    appCalls,               \* ... GenerateStream calls made
    appLenBefore,           \* ... len(App.history) before the last user message was added
    appEmitted,             \* ... tool calls of the streams opened since that message, in order
    appDone                 \* ... done events with usage in the streams opened so far

VARIABLES
    promptModel,            \* confirmation prompt: the bubbletea model, and how the program ended
    shellCall,              \* shell tool: the timeout argument of a call and the timeout taken
    inputModel              \* TUI input editor: InputModel

vars == <<history, allowedTools, yoloMode, effectiveModel, sessionTokens, pc, modelName, i,
          historyLenBefore, success, fullResponse, pendingToolCallParts, next, streamPos,
          chunks, result, script, clock, nextCallID, submits, freeCalls, histBefore,
          allowBefore, genCalls, streamsOpened, emitted, resolved, written,
          fbModel, fbRes, fbOut,
          rsPos, rsList, rsAttempt, rsModel, rsChunks, rsOut, rsResult,
          files, currentID, stNow, stOps, stLast, currentSession, stCreated,
          appHistory, appLoading, appTokens, appAllowList, appYolo, appCmds, appMsgs,
          appScript, appSubmits, appClears, appCalls, appLenBefore, appEmitted, appDone,
          promptModel, shellCall, inputModel>>

uiVars == <<promptModel, shellCall, inputModel>>

appVars == <<appHistory, appLoading, appTokens, appAllowList, appYolo, appCmds, appMsgs,
             appScript, appSubmits, appClears, appCalls, appLenBefore, appEmitted, appDone>>

stVars == <<files, currentID, stNow, stOps, stLast, currentSession, stCreated>>

fbVars == <<fbModel, fbRes, fbOut>>

rsVars == <<rsPos, rsList, rsAttempt, rsModel, rsChunks, rsOut, rsResult>>

\* the variables that are not the REPL's
otherVars == <<fbVars, rsVars, stVars, appVars, uiVars>>

envVars == <<yoloMode, effectiveModel, script, submits>>

(***************************************************************************)
(* Environment scripts, fixed for a session.  A free script lets backend,  *)
(* user and tools answer anything, within the bounds.  A loop script is    *)
(* the backend that answers every request with the same single tool call   *)
(* and never with text, user and tool answering the same way each time.    *)
(* A plain script is the backend that sends the script's text chunks and   *)
(* then done with usage, or an error as the first event; opening the       *)
(* stream may fail or fall back in any way.                                *)
(***************************************************************************)
PartKinds == {"nil"} \cup ThoughtSignatures

\* part: what the backend's tool_call events carry as ToolCallPart, nil or a part
\* with that thought_signature
FreeScripts == [mode : {"free"}, name : {""}, hasID : {FALSE}, part : PartKinds,
                outcome : {OutcomeCancel}, execOk : {TRUE}, texts : {<<>>}]

\* the text a freely behaving backend sends
FreeTextChunks == {<<"a">>}

PlainTexts == UNION {[1..n -> TextAlphabet] : n \in 0..MaxPlainChunks}

PlainScripts == [mode : {"plain"}, name : {""}, hasID : {FALSE}, part : {"nil"},
                 outcome : {OutcomeCancel}, execOk : {TRUE}, texts : PlainTexts]

LoopScripts ==
    { sc \in [mode : {"loop"}, name : RegisteredTools \cup UnknownTools, hasID : BOOLEAN,
              part : PartKinds, outcome : Outcomes, execOk : BOOLEAN, texts : {<<>>}] :
        /\ ~RequiresConfirmation(sc.name) => sc.outcome = OutcomeCancel
        /\ (sc.name \notin RegisteredTools \/ sc.outcome = OutcomeCancel) => sc.execOk }

Scripts == FreeScripts \cup LoopScripts \cup PlainScripts

(***************************************************************************)
(* confirmation.AllowList                                                  *)
(***************************************************************************)
NewAllowList == {}

IsAllowed(allowed, toolName) == toolName \in allowed

Allow(allowed, toolName) == allowed \cup {toolName}

(***************************************************************************)
(* cmd/root.go: fallback list                                              *)
(***************************************************************************)
IndexOf(seq, x) == IF \E k \in 1..Len(seq) : seq[k] = x
                   THEN CHOOSE k \in 1..Len(seq) : seq[k] = x /\ \A j \in 1..(k-1) : seq[j] # x
                   ELSE 0

GetFallbackModels(currentModel) ==
    LET at == IndexOf(FallbackModels, currentModel)
    IN  IF at > 1 THEN SubSeq(FallbackModels, at, Len(FallbackModels)) ELSE FallbackModels

\* what one client.GenerateStream call answers
OpenResults == {"ok", "retryable", "fatal"}

isRetryableError(r) == r = "retryable"

isRetryableStreamError(errStr) == errStr = ErrStreamEventRetryable

(***************************************************************************)
(* cmd/chat.go: generateStreamWithFallback.  res[a] is what the a-th       *)
(* GenerateStream call of this invocation answers.                         *)
(***************************************************************************)
\* a loop that gives up at the first error, whichever it is
fallbackAttemptOnce(fallbackModels, reqModel, res, attempt) ==
    [err |-> res[attempt] # "ok", model |-> reqModel, calls |-> attempt, tried |-> <<reqModel>>]

RECURSIVE fallbackAttempt(_, _, _, _)
fallbackAttempt(fallbackModels, reqModel, res, attempt) ==
    LET model == IF attempt > 1 THEN fallbackModels[attempt] ELSE reqModel
    IN  IF res[attempt] = "ok"
        THEN [err |-> FALSE, model |-> model, calls |-> attempt, tried |-> <<model>>]
        ELSE IF isRetryableError(res[attempt]) /\ attempt < Len(fallbackModels)
             THEN LET r == fallbackAttempt(fallbackModels, model, res, attempt + 1)
                  IN  [r EXCEPT !.tried = <<model>> \o @]
             ELSE [err |-> TRUE, model |-> model, calls |-> attempt, tried |-> <<model>>]

generateStreamWithFallback(name, res) ==
    fallbackAttempt(GetFallbackModels(name), name, res, 1)

(***************************************************************************)
(* cmd/chat.go: processWithToolLoop                                        *)
(***************************************************************************)
\* a deferred function that leaves the history as the failed call built it
RevertNothing(h, lenBefore) == h

\* a revert that truncates to the captured length and so keeps the user turn
RevertHistoryToLenBefore(h, lenBefore) == SubSeq(h, 1, lenBefore)

\* the deferred revert: *history = (*history)[:historyLenBefore-1]
RevertHistory(h, lenBefore) == SubSeq(h, 1, lenBefore - 1)

\* every return of processWithToolLoop runs the deferred function; the call's
\* locals are gone with it
Return(err, h, ok) ==
    /\ history' = IF ok THEN h ELSE RevertHistory(h, historyLenBefore)
    /\ result' = err
    /\ pc' = "idle"
    /\ modelName' = effectiveModel
    /\ i' = 0
    /\ historyLenBefore' = 0
    /\ success' = FALSE
    /\ fullResponse' = <<>>
    /\ pendingToolCallParts' = <<>>
    /\ next' = 1
    /\ streamPos' = "events"
    /\ chunks' = 0
    /\ written' = <<>>

\* a loop that runs once more: i <= maxIterations
LoopConditionInclusive(iter) == iter <= maxIterations

\* for i := 0; i < maxIterations; i++
LoopCondition(iter) == iter < maxIterations

\* a loop that forgets which model answered and asks for the first one again
ModelAfterOpenKeepsCurrent(current, usedModel) == current

\* if usedModel != modelName { modelName = usedModel }
ModelAfterOpen(current, usedModel) == IF usedModel # current THEN usedModel ELSE current

\* keeping only the call of the event, not the part it came in
PendingPartCallOnly(event) == BarePart(event.ToolCall)

\* the part kept for a tool_call event
PendingPart(event) ==
    IF event.ToolCallPart # <<>> THEN event.ToolCallPart[1] ELSE BarePart(event.ToolCall)

\* responseID := fc.ID, or "<name>-<nanos>" when the backend sent none
ResponseID(fc, nanos) == IF fc.ID = NoID THEN <<fc.Name, "-", nanos>> ELSE fc.ID

\* the two turns appended for a resolved call
ToolTurns(fcPart, responseID, response) ==
    << Content("model", fcPart),
       Content("user", FunctionRespPart(responseID, fcPart.FunctionCall[1].Name, response)) >>

\* tool.RequiresConfirmation() && !allowList.IsAllowed(fc.Name)
NeedsPrompt(allowed, name) == RequiresConfirmation(name) /\ ~IsAllowed(allowed, name)

\* a switch whose cancel case falls through to Execute
GoesOnToExecuteAnyOutcome(outcome) == TRUE

\* the switch on the prompt's outcome: does the call go on to Execute?
GoesOnToExecute(outcome) == outcome # OutcomeCancel

\* a switch that allows the tool on every outcome that proceeds
AllowAfterAnyProceed(allowed, name, outcome) ==
    IF outcome # OutcomeCancel THEN Allow(allowed, name) ELSE allowed

\* the allow-list after the switch on the prompt's outcome
AllowAfter(allowed, name, outcome) ==
    IF outcome = OutcomeProceedAlways THEN Allow(allowed, name) ELSE allowed

\* the chat at its prompt, with a conversation h and its token totals
ReplStart(h, tokens) ==
    /\ history = h
    /\ allowedTools = NewAllowList
    /\ script \in Scripts
    /\ yoloMode \in IF script.mode = "loop" THEN BOOLEAN ELSE {FALSE}
    /\ effectiveModel \in IF script.mode = "free" THEN {ModelFreeDefault} ELSE AvailableModels
    /\ sessionTokens = tokens
    /\ pc = "idle"
    /\ modelName = effectiveModel
    /\ i = 0
    /\ historyLenBefore = 0
    /\ success = FALSE
    /\ fullResponse = <<>>
    /\ pendingToolCallParts = <<>>
    /\ next = 1
    /\ streamPos = "events"
    /\ chunks = 0
    /\ result = NotReturned
    /\ clock = 0
    /\ nextCallID = 1
    /\ submits = 0
    /\ freeCalls = 0
    /\ histBefore = <<>>
    /\ allowBefore = {}
    /\ genCalls = 0
    /\ streamsOpened = 0
    /\ emitted = <<>>
    /\ resolved = <<>>
    /\ written = <<>>

ReplInit == ReplStart(<<>>, [input |-> 0, output |-> 0])

\* generateStreamWithFallback on its own is not in use
FallbackOff == fbModel = "" /\ fbRes = <<>> /\ fbOut = <<>>

\* runStreamingWithFallback is not in use
OneShotOff ==
    /\ rsPos = "off" /\ rsList = <<>> /\ rsAttempt = 1 /\ rsModel = ""
    /\ rsChunks = 0 /\ rsOut = <<>> /\ rsResult = NotReturned

\* no operation was made on the session store
NoStoreOp == [op |-> "none", key |-> <<>>, session |-> <<>>, err |-> NoError, at |-> 0]

\* the session store is empty and not in use
StoreOff ==
    /\ files = <<>> /\ currentID = <<>> /\ stNow = 1 /\ stOps = 0 /\ stLast = NoStoreOp
    /\ currentSession = <<>>
    /\ stCreated = 0

\* initialModel(details): the prompt before any key, Yes highlighted
initialModel ==
    [outcome |-> OutcomeCancel, selectedBtn |-> 0, ready |-> FALSE]

\* NewInputModel()
NewInputModel == [value |-> <<>>, cursor |-> 0, history |-> <<>>, historyIdx |-> -1]

\* no prompt is shown, no shell call is made, the input editor is untouched
UiOff ==
    /\ promptModel = [pos |-> "off", m |-> initialModel, keys |-> <<>>, returned |-> <<>>]
    /\ shellCall = [pos |-> "off", args |-> <<>>, timeout |-> <<>>]
    /\ inputModel = NewInputModel

\* the TUI is not running
TuiOff ==
    /\ appHistory = <<>> /\ appLoading = FALSE
    /\ appTokens = [input |-> 0, output |-> 0]
    /\ appAllowList = NewAllowList /\ appYolo = FALSE
    /\ appCmds = <<>> /\ appMsgs = <<>> /\ appScript = "off"
    /\ appSubmits = 0 /\ appClears = 0 /\ appCalls = 0 /\ appLenBefore = 0
    /\ appEmitted = <<>> /\ appDone = 0

\* sessions against the freely behaving backend and against the backend that never
\* stops asking for a tool
Init ==
    /\ ReplInit /\ script.mode \in {"free", "loop"}
    /\ FallbackOff /\ OneShotOff /\ StoreOff /\ TuiOff /\ UiOff

\* autoSave: currentSession.Model = effectiveModel
SessionModel == effectiveModel

\* OnInput: processWithToolLoop is entered; the user turn is appended
Submit(text) ==
    /\ pc = "idle"
    /\ submits < MaxSubmits
    /\ submits' = submits + 1
    /\ history' = Append(history, Content("user", TextPart(text)))
    /\ historyLenBefore' = Len(history')
    /\ success' = FALSE
    /\ i' = 0
    /\ modelName' = effectiveModel
    /\ pc' = "iterate"
    /\ result' = NotReturned
    /\ histBefore' = history
    /\ allowBefore' = allowedTools
    /\ genCalls' = 0
    /\ streamsOpened' = 0
    /\ emitted' = <<>>
    /\ resolved' = <<>>
    /\ written' = <<>>
    /\ UNCHANGED otherVars
    /\ UNCHANGED <<allowedTools, yoloMode, effectiveModel, script, sessionTokens, fullResponse,
                   pendingToolCallParts, next, streamPos, chunks, clock, nextCallID, freeCalls>>

\* the for loop ends: i reached maxIterations
IterationCap ==
    /\ pc = "iterate"
    /\ ~LoopCondition(i)
    /\ Return(ErrMaxIterations, history, success)
    /\ UNCHANGED otherVars
    /\ UNCHANGED <<allowedTools, sessionTokens, envVars, clock, nextCallID, freeCalls,
                   histBefore, allowBefore, genCalls, streamsOpened, emitted,
                   resolved>>

\* the loop script's backend answers every request after the first, maybe on a
\* fallback model
MayOpen(res) ==
    script.mode = "loop" => (i = 0 \/ ~generateStreamWithFallback(modelName, res).err)

\* generateStreamWithFallback returned an error
OpenStreamFails(res) ==
    /\ pc = "iterate"
    /\ LoopCondition(i)
    /\ MayOpen(res)
    /\ LET r == generateStreamWithFallback(modelName, res)
       IN  /\ r.err
           /\ genCalls' = genCalls + r.calls
    /\ Return(ErrStreamOpen, history, success)
    /\ UNCHANGED otherVars
    /\ UNCHANGED <<allowedTools, sessionTokens, envVars, clock, nextCallID, freeCalls,
                   histBefore, allowBefore, streamsOpened, emitted, resolved>>

\* generateStreamWithFallback opened a stream, maybe of a fallback model
OpenStream(res) ==
    /\ pc = "iterate"
    /\ LoopCondition(i)
    /\ MayOpen(res)
    /\ LET r == generateStreamWithFallback(modelName, res)
       IN  /\ ~r.err
           /\ genCalls' = genCalls + r.calls
           /\ modelName' = ModelAfterOpen(modelName, r.model)
    /\ streamsOpened' = streamsOpened + 1
    /\ fullResponse' = <<>>
    /\ pendingToolCallParts' = <<>>
    /\ streamPos' = "events"
    /\ chunks' = 0
    /\ written' = <<>>
    /\ pc' = "stream"
    /\ UNCHANGED otherVars
    /\ UNCHANGED <<history, allowedTools, sessionTokens, i, historyLenBefore, success, next,
                   result, envVars, clock, nextCallID, freeCalls, histBefore, allowBefore,
                   emitted, resolved>>


(***************************************************************************)
(* The stream of one backend call, read event by event                     *)
(***************************************************************************)
\* the id the backend gives a call: none, or one it never used before
BackendCallID(hasID) == IF hasID THEN <<"call", "#", nextCallID>> ELSE NoID

BackendPart(fc, kind) == IF kind = "nil" THEN <<>> ELSE <<SignedPart(fc, kind)>>

\* which tool_call event may come next, under the current script
MayEmit(name, hasID) ==
    IF script.mode = "loop"
    THEN /\ Len(pendingToolCallParts) = 0
         /\ name = script.name /\ hasID = script.hasID
    ELSE script.mode = "free" /\ freeCalls < MaxToolCalls

\* which text event may come next, under the current script
MaySend(t) ==
    CASE script.mode = "free" -> chunks < MaxChunks /\ t \in FreeTextChunks
      [] script.mode = "plain" -> chunks < Len(script.texts) /\ t = <<script.texts[chunks + 1]>>
      [] OTHER -> FALSE

\* a text event put in front of the text read so far
StreamTextInFront(t) ==
    /\ pc = "stream" /\ streamPos = "events"
    /\ MaySend(t)
    /\ chunks' = chunks + 1
    /\ written' = written \o t
    /\ fullResponse' = t \o fullResponse
    /\ UNCHANGED otherVars
    /\ UNCHANGED <<history, allowedTools, sessionTokens, pc, modelName, i, historyLenBefore,
                   success, pendingToolCallParts, next, streamPos, result, envVars, clock,
                   nextCallID, freeCalls, histBefore, allowBefore, genCalls,
                   streamsOpened, emitted, resolved>>

\* a text event: written to the formatter, then added to fullResponse
StreamText(t) ==
    /\ pc = "stream" /\ streamPos = "events"
    /\ MaySend(t)
    /\ chunks' = chunks + 1
    /\ written' = written \o t
    /\ fullResponse' = fullResponse \o t
    /\ UNCHANGED otherVars
    /\ UNCHANGED <<history, allowedTools, sessionTokens, pc, modelName, i, historyLenBefore,
                   success, pendingToolCallParts, next, streamPos, result, envVars, clock,
                   nextCallID, freeCalls, histBefore, allowBefore, genCalls,
                   streamsOpened, emitted, resolved>>

\* formatter.WriteStreamEvent returned an error, on a text or a done event
StreamWriteFails ==
    /\ pc = "stream"
    /\ script.mode = "free"
    /\ Return(ErrWrite, history, success)
    /\ UNCHANGED otherVars
    /\ UNCHANGED <<allowedTools, sessionTokens, envVars, clock, nextCallID, freeCalls,
                   histBefore, allowBefore, genCalls, streamsOpened, emitted,
                   resolved>>

\* a tool_call event: its part is kept for after the stream
StreamToolCall(name, hasID) ==
    /\ pc = "stream" /\ streamPos = "events"
    /\ MayEmit(name, hasID)
    /\ LET fc == [ID |-> BackendCallID(hasID), Name |-> name, Args |-> "args"]
           event == ToolCallEvent(fc, BackendPart(fc, script.part))
       IN  /\ pendingToolCallParts' = Append(pendingToolCallParts, PendingPart(event))
           /\ emitted' = Append(emitted, event)
    /\ nextCallID' = IF hasID THEN nextCallID + 1 ELSE nextCallID
    /\ freeCalls' = IF script.mode = "free" THEN freeCalls + 1 ELSE freeCalls
    /\ UNCHANGED written
    /\ UNCHANGED otherVars
    /\ UNCHANGED <<history, allowedTools, sessionTokens, pc, modelName, i, historyLenBefore,
                   success, fullResponse, next, streamPos, chunks, result, envVars, clock,
                   histBefore, allowBefore, genCalls, streamsOpened, resolved>>

\* the done event: usage, when present, is added to the session's totals
StreamDone(hasUsage) ==
    /\ pc = "stream" /\ streamPos = "events"
    /\ script.mode = "loop" => (Len(pendingToolCallParts) = 1 /\ hasUsage)
    /\ script.mode = "plain" => (chunks = Len(script.texts) /\ hasUsage)
    /\ sessionTokens' = IF hasUsage
                        THEN [input |-> sessionTokens.input + Usage.PromptTokenCount,
                              output |-> sessionTokens.output + Usage.CandidatesTokenCount]
                        ELSE sessionTokens
    /\ streamPos' = "done"
    /\ UNCHANGED written
    /\ UNCHANGED otherVars
    /\ UNCHANGED <<history, allowedTools, pc, modelName, i, historyLenBefore, success,
                   fullResponse, pendingToolCallParts, next, chunks, result, envVars, clock,
                   nextCallID, freeCalls, histBefore, allowBefore, genCalls,
                   streamsOpened, emitted, resolved>>

\* which error event may come next, under the current script
MayFail(msg) ==
    CASE script.mode = "free" -> msg = ErrStreamEvent
      [] script.mode = "plain" -> chunks = 0
      [] OTHER -> FALSE

\* an error event: processWithToolLoop returns it
StreamError(msg) ==
    /\ pc = "stream" /\ streamPos = "events"
    /\ MayFail(msg)
    /\ Return(msg, history, success)
    /\ UNCHANGED otherVars
    /\ UNCHANGED <<allowedTools, sessionTokens, envVars, clock, nextCallID, freeCalls,
                   histBefore, allowBefore, genCalls, streamsOpened, emitted,
                   resolved>>

\* the stream closed without a tool call: the model's text ends the call
StreamEndsTurn ==
    /\ pc = "stream"
    /\ script.mode # "loop"
    /\ script.mode = "plain" => streamPos = "done"
    /\ Len(pendingToolCallParts) = 0
    /\ Return(NoError, Append(history, Content("model", TextPart(fullResponse))), TRUE)
    /\ UNCHANGED otherVars
    /\ UNCHANGED <<allowedTools, sessionTokens, envVars, clock, nextCallID,
                   freeCalls, histBefore, allowBefore, genCalls, streamsOpened,
                   emitted, resolved>>

\* the stream closed with tool calls pending: go through them; the text read
\* with them is not used again
StreamEndsWithCalls ==
    /\ pc = "stream"
    /\ script.mode = "loop" => streamPos = "done"
    /\ Len(pendingToolCallParts) > 0
    /\ next' = 1
    /\ pc' = "tools"
    /\ fullResponse' = <<>>
    /\ streamPos' = "events"
    /\ chunks' = 0
    /\ written' = <<>>
    /\ UNCHANGED otherVars
    /\ UNCHANGED <<history, allowedTools, sessionTokens, modelName, i, historyLenBefore,
                   success, pendingToolCallParts, result,
                   envVars, clock, nextCallID, freeCalls, histBefore, allowBefore,
                   genCalls, streamsOpened, emitted, resolved>>

(***************************************************************************)
(* The loop over pendingToolCallParts                                      *)
(***************************************************************************)
AtCall == pc = "tools" /\ next <= Len(pendingToolCallParts)

\* going through the pending parts from the last to the first
fcPartFromLast == pendingToolCallParts[Len(pendingToolCallParts) + 1 - next]

\* for _, fcPart := range pendingToolCallParts
fcPart == pendingToolCallParts[next]

fc == fcPart.FunctionCall[1]

\* time.Now().UnixNano() is read only when the backend sent no id
ClockAfter(call) == IF call.ID = NoID THEN clock + 1 ELSE clock

\* the answers the script lets user and tool give
MayAnswer(outcome, execOk) ==
    script.mode = "loop" => (outcome = script.outcome /\ execOk = script.execOk)

Resolved(outcome, ran, response) ==
    [name |-> fc.Name, allowed |-> IsAllowed(allowedTools, fc.Name), outcome |-> outcome,
     executed |-> ran, response |-> response]

ExecResponse(execOk) == IF execOk THEN ExecOkResponse ELSE ExecErrorResponse

\* a cancel that leaves the loop over the pending parts: break
AfterCancelBreak(at) == Len(pendingToolCallParts) + 1

\* the cancel case ends with continue: the loop goes to the next pending part
AfterCancel(at) == at + 1

\* an unknown tool that ends the call with an error
ToolUnknownReturnsError ==
    /\ AtCall
    /\ fc.Name \notin RegisteredTools
    /\ resolved' = Append(resolved, Resolved("none", FALSE, UnknownToolResponse(fc.Name)))
    /\ clock' = ClockAfter(fc)
    /\ Return(UnknownToolResponse(fc.Name), history, success)
    /\ UNCHANGED otherVars
    /\ UNCHANGED <<allowedTools, sessionTokens, envVars, nextCallID, freeCalls, histBefore,
                   allowBefore, genCalls, streamsOpened, emitted>>

\* toolRegistry.Get fails: an error response is stored, the loop goes on
ToolUnknown ==
    /\ AtCall
    /\ fc.Name \notin RegisteredTools
    /\ history' = history \o ToolTurns(fcPart, ResponseID(fc, clock), UnknownToolResponse(fc.Name))
    /\ resolved' = Append(resolved, Resolved("none", FALSE, UnknownToolResponse(fc.Name)))
    /\ clock' = ClockAfter(fc)
    /\ next' = next + 1
    /\ UNCHANGED written
    /\ UNCHANGED otherVars
    /\ UNCHANGED <<allowedTools, sessionTokens, pc, modelName, i, historyLenBefore, success,
                   fullResponse, pendingToolCallParts, streamPos, chunks, result, envVars,
                   nextCallID, freeCalls, histBefore, allowBefore, genCalls, streamsOpened,
                   emitted>>

\* promptToolConfirmation returned an error: processWithToolLoop returns it
ToolConfirmFails ==
    /\ AtCall
    /\ fc.Name \in RegisteredTools
    /\ NeedsPrompt(allowedTools, fc.Name)
    /\ script.mode = "free"
    /\ resolved' = Append(resolved, Resolved("error", FALSE, <<>>))
    /\ clock' = ClockAfter(fc)
    /\ Return(ErrConfirmation, history, success)
    /\ UNCHANGED otherVars
    /\ UNCHANGED <<allowedTools, sessionTokens, envVars, nextCallID, freeCalls, histBefore,
                   allowBefore, genCalls, streamsOpened, emitted>>

\* the user was asked and the call did not go on to Execute
ToolCancelled(outcome) ==
    /\ AtCall
    /\ fc.Name \in RegisteredTools
    /\ NeedsPrompt(allowedTools, fc.Name)
    /\ MayAnswer(outcome, TRUE)
    /\ ~GoesOnToExecute(outcome)
    /\ history' = history \o ToolTurns(fcPart, ResponseID(fc, clock), CancelledResponse)
    /\ resolved' = Append(resolved, Resolved(outcome, FALSE, CancelledResponse))
    /\ clock' = ClockAfter(fc)
    /\ next' = AfterCancel(next)
    /\ UNCHANGED written
    /\ UNCHANGED otherVars
    /\ UNCHANGED <<allowedTools, sessionTokens, pc, modelName, i, historyLenBefore, success,
                   fullResponse, pendingToolCallParts, streamPos, chunks, result, envVars,
                   nextCallID, freeCalls, histBefore, allowBefore, genCalls, streamsOpened,
                   emitted>>

\* the user was asked, and the call went on to Execute
ToolConfirmed(outcome, execOk) ==
    /\ AtCall
    /\ fc.Name \in RegisteredTools
    /\ NeedsPrompt(allowedTools, fc.Name)
    /\ MayAnswer(outcome, execOk)
    /\ GoesOnToExecute(outcome)
    /\ allowedTools' = AllowAfter(allowedTools, fc.Name, outcome)
    /\ history' = history \o ToolTurns(fcPart, ResponseID(fc, clock), ExecResponse(execOk))
    /\ resolved' = Append(resolved, Resolved(outcome, TRUE, ExecResponse(execOk)))
    /\ clock' = ClockAfter(fc)
    /\ next' = next + 1
    /\ UNCHANGED written
    /\ UNCHANGED otherVars
    /\ UNCHANGED <<sessionTokens, pc, modelName, i, historyLenBefore, success, fullResponse,
                   pendingToolCallParts, streamPos, chunks, result, envVars, nextCallID,
                   freeCalls, histBefore, allowBefore, genCalls, streamsOpened, emitted>>

\* no prompt is needed: the tool is executed
ToolExecuted(execOk) ==
    /\ AtCall
    /\ fc.Name \in RegisteredTools
    /\ ~NeedsPrompt(allowedTools, fc.Name)
    /\ MayAnswer(script.outcome, execOk)
    /\ history' = history \o ToolTurns(fcPart, ResponseID(fc, clock), ExecResponse(execOk))
    /\ resolved' = Append(resolved, Resolved("none", TRUE, ExecResponse(execOk)))
    /\ clock' = ClockAfter(fc)
    /\ next' = next + 1
    /\ UNCHANGED written
    /\ UNCHANGED otherVars
    /\ UNCHANGED <<allowedTools, sessionTokens, pc, modelName, i, historyLenBefore, success,
                   fullResponse, pendingToolCallParts, streamPos, chunks, result, envVars,
                   nextCallID, freeCalls, histBefore, allowBefore, genCalls, streamsOpened,
                   emitted>>

\* every pending call is resolved: i++ and the next request
NextIteration ==
    /\ pc = "tools"
    /\ next > Len(pendingToolCallParts)
    /\ i' = i + 1
    /\ pc' = "iterate"
    /\ UNCHANGED written
    /\ UNCHANGED otherVars
    /\ UNCHANGED <<history, allowedTools, sessionTokens, modelName, historyLenBefore, success,
                   fullResponse, pendingToolCallParts, next, streamPos, chunks, result,
                   envVars, clock, nextCallID, freeCalls, histBefore, allowBefore, genCalls,
                   streamsOpened, emitted, resolved>>

Next ==
    \/ \E text \in UserTexts : Submit(text)
    \/ IterationCap
    \/ \E res \in [1..Len(FallbackModels) -> OpenResults] : OpenStreamFails(res)
    \/ \E res \in [1..Len(FallbackModels) -> OpenResults] : OpenStream(res)
    \/ \E t \in TextChunks : StreamText(t)
    \/ StreamWriteFails
    \/ \E name \in RegisteredTools \cup UnknownTools, hasID \in BOOLEAN :
           StreamToolCall(name, hasID)
    \/ \E hasUsage \in BOOLEAN : StreamDone(hasUsage)
    \/ \E msg \in StreamErrors : StreamError(msg)
    \/ StreamEndsTurn
    \/ StreamEndsWithCalls
    \/ ToolUnknown
    \/ ToolConfirmFails
    \/ \E outcome \in Outcomes : ToolCancelled(outcome)
    \/ \E outcome \in Outcomes, execOk \in BOOLEAN : ToolConfirmed(outcome, execOk)
    \/ \E execOk \in BOOLEAN : ToolExecuted(execOk)
    \/ NextIteration

Spec == Init /\ [][Next]_vars

(***************************************************************************)
(* Sessions against the backend that never stops asking for a tool: the    *)
(* actions such a session takes.  The REPL is one thread: it goes on as    *)
(* long as backend, user and tool answer, which they do here.              *)
(***************************************************************************)
LoopInit == Init /\ script.mode = "loop"

LoopNext ==
    \/ \E text \in UserTexts : Submit(text)
    \/ IterationCap
    \/ \E res \in [1..Len(FallbackModels) -> OpenResults] : OpenStreamFails(res)
    \/ \E res \in [1..Len(FallbackModels) -> OpenResults] : OpenStream(res)
    \/ \E name \in RegisteredTools \cup UnknownTools, hasID \in BOOLEAN :
           StreamToolCall(name, hasID)
    \/ \E hasUsage \in BOOLEAN : StreamDone(hasUsage)
    \/ StreamEndsWithCalls
    \/ ToolUnknown
    \/ \E outcome \in Outcomes : ToolCancelled(outcome)
    \/ \E outcome \in Outcomes, execOk \in BOOLEAN : ToolConfirmed(outcome, execOk)
    \/ \E execOk \in BOOLEAN : ToolExecuted(execOk)
    \/ NextIteration

LoopSpec == LoopInit /\ [][LoopNext]_vars /\ WF_vars(LoopNext)

(***************************************************************************)
(* Sessions against the backend that only sends text.                      *)
(***************************************************************************)
PlainInit ==
    /\ ReplInit /\ script.mode = "plain"
    /\ FallbackOff /\ OneShotOff /\ StoreOff /\ TuiOff /\ UiOff

PlainNext ==
    \/ \E text \in UserTexts : Submit(text)
    \/ \E res \in [1..Len(FallbackModels) -> OpenResults] : OpenStreamFails(res)
    \/ \E res \in [1..Len(FallbackModels) -> OpenResults] : OpenStream(res)
    \/ \E t \in TextChunks : StreamText(t)
    \/ \E hasUsage \in BOOLEAN : StreamDone(hasUsage)
    \/ \E msg \in StreamErrors : StreamError(msg)
    \/ StreamEndsTurn

PlainSpec == PlainInit /\ [][PlainNext]_vars

(***************************************************************************)
(* generateStreamWithFallback on its own: called once, for any model name  *)
(* and any answers of the successive GenerateStream calls.                 *)
(***************************************************************************)
\* a model name that is not in the lists
OtherModels == {"custom-model"}

\* the REPL is not in use
ReplOff == ReplInit /\ script.mode = "free" /\ script.part = "nil"

replVars == <<history, allowedTools, yoloMode, effectiveModel, sessionTokens, pc, modelName, i,
              historyLenBefore, success, fullResponse, pendingToolCallParts, next, streamPos,
              chunks, result, script, clock, nextCallID, submits, freeCalls, histBefore,
              allowBefore, genCalls, streamsOpened, emitted, resolved, written>>

FallbackInit ==
    /\ ReplOff /\ OneShotOff /\ StoreOff /\ TuiOff /\ UiOff
    /\ fbModel \in AvailableModels \cup OtherModels
    /\ fbRes \in [1..Len(FallbackModels) -> OpenResults]
    /\ fbOut = <<>>

FallbackCall ==
    /\ fbOut = <<>>
    /\ fbOut' = <<generateStreamWithFallback(fbModel, fbRes)>>
    /\ UNCHANGED <<fbModel, fbRes>>
    /\ UNCHANGED <<replVars, rsVars, stVars, appVars, uiVars>>

FallbackNext == FallbackCall

FallbackSpec == FallbackInit /\ [][FallbackNext]_vars

(***************************************************************************)
(* cmd/root.go: runStreamingWithFallback, the one-shot run (gmn "prompt"). *)
(***************************************************************************)
OneShotInit ==
    /\ ReplOff /\ FallbackOff /\ StoreOff /\ TuiOff /\ UiOff
    /\ rsModel \in AvailableModels \cup OtherModels
    /\ rsList = GetFallbackModels(rsModel)
    /\ rsAttempt = 1
    /\ rsPos = "open"
    /\ rsChunks = 0
    /\ rsOut = <<>>
    /\ rsResult = NotReturned

\* for attempt, fallbackModel := range fallbackModels: the next attempt
RsNextAttempt ==
    /\ rsAttempt' = rsAttempt + 1
    /\ rsModel' = rsList[rsAttempt + 1]
    /\ rsPos' = "open"
    /\ rsChunks' = 0
    /\ UNCHANGED <<rsList, rsOut, rsResult>>

RsReturn(err) ==
    /\ rsPos' = "returned"
    /\ rsResult' = err
    /\ UNCHANGED <<rsList, rsAttempt, rsModel, rsChunks, rsOut>>

\* is there a model left to fall back to?  attempt < len(fallbackModels)-1
RsModelRemains == rsAttempt < Len(rsList)

\* client.GenerateStream opened the stream
RsOpen ==
    /\ rsPos = "open"
    /\ rsPos' = "stream"
    /\ UNCHANGED <<rsList, rsAttempt, rsModel, rsChunks, rsOut, rsResult>>
    /\ UNCHANGED <<replVars, fbVars, stVars, appVars, uiVars>>

\* client.GenerateStream failed: the next model, or the error is returned
RsOpenFails(r) ==
    /\ rsPos = "open"
    /\ r # "ok"
    /\ IF isRetryableError(r) /\ RsModelRemains THEN RsNextAttempt ELSE RsReturn(ErrStreamOpen)
    /\ UNCHANGED <<replVars, fbVars, stVars, appVars, uiVars>>

\* does an error event with this message send the run to the next model?
RsRollsOver(errStr) == isRetryableStreamError(errStr) /\ RsModelRemains

\* an error event: the next model, or the error is returned
RsStreamError(errStr) ==
    /\ rsPos = "stream"
    /\ IF RsRollsOver(errStr) THEN RsNextAttempt ELSE RsReturn(errStr)
    /\ UNCHANGED <<replVars, fbVars, stVars, appVars, uiVars>>

\* a text event: formatter.WriteStreamEvent writes it
RsText(t) ==
    /\ rsPos = "stream"
    /\ rsChunks < MaxRunChunks
    /\ rsChunks' = rsChunks + 1
    /\ rsOut' = Append(rsOut, [model |-> rsModel, text |-> t])
    /\ UNCHANGED <<rsPos, rsList, rsAttempt, rsModel, rsResult>>
    /\ UNCHANGED <<replVars, fbVars, stVars, appVars, uiVars>>

\* formatter.WriteStreamEvent returned an error
RsWriteFails ==
    /\ rsPos = "stream"
    /\ RsReturn(ErrWrite)
    /\ UNCHANGED <<replVars, fbVars, stVars, appVars, uiVars>>

\* the stream closed without an error event: return nil
RsStreamEnds ==
    /\ rsPos = "stream"
    /\ RsReturn(NoError)
    /\ UNCHANGED <<replVars, fbVars, stVars, appVars, uiVars>>

OneShotNext ==
    \/ RsOpen
    \/ \E r \in OpenResults : RsOpenFails(r)
    \/ \E errStr \in StreamErrors : RsStreamError(errStr)
    \/ \E t \in FreeTextChunks : RsText(t)
    \/ RsWriteFails
    \/ RsStreamEnds

OneShotSpec == OneShotInit /\ [][OneShotNext]_vars

(***************************************************************************)
(* internal/session: the session store.  Strings that name files are       *)
(* sequences of characters; Go values carry their dynamic type, JSON       *)
(* values the kind of their text.                                          *)
(***************************************************************************)
GoString(x) == [go |-> "string", v |-> x]
GoInt(n) == [go |-> "int", v |-> n]
GoFloat64(n) == [go |-> "float64", v |-> n]
\* map[string]interface{}
GoMap(f) == [go |-> "map", v |-> f]
\* []interface{}
GoSlice(q) == [go |-> "[]interface{}", v |-> q]
\* []map[string]interface{}
GoMapSlice(q) == [go |-> "[]map[string]interface{}", v |-> q]

JString(x) == [json |-> "string", v |-> x]
JNumber(n) == [json |-> "number", v |-> n]
\* an object is the sequence of its members
JObject(members) == [json |-> "object", v |-> members]
JArray(q) == [json |-> "array", v |-> q]

\* the keys of the maps in session messages, in the order encoding/json writes them
KeyOrder == <<"args", "functionCall", "functionResponse", "name", "parts", "path",
              "response", "role", "text">>

\* json.Marshal of a value held in an interface{}
RECURSIVE Marshal(_)
Marshal(x) ==
    CASE x.go = "string" -> JString(x.v)
      [] x.go \in {"int", "float64"} -> JNumber(x.v)
      [] x.go = "map" ->
            LET keys == SelectSeq(KeyOrder, LAMBDA k : k \in DOMAIN x.v)
            IN  JObject([n \in 1..Len(keys) |-> <<keys[n], Marshal(x.v[keys[n]])>>])
      [] OTHER -> JArray([n \in 1..Len(x.v) |-> Marshal(x.v[n])])

\* the value of member key of a JSON object
Member(obj, key) ==
    LET at == CHOOSE n \in 1..Len(obj.v) : obj.v[n][1] = key
    IN  obj.v[at][2]

HasMember(obj, key) == \E n \in 1..Len(obj.v) : obj.v[n][1] = key

\* json.Unmarshal into an interface{}
RECURSIVE Unmarshal(_)
Unmarshal(j) ==
    CASE j.json = "string" -> GoString(j.v)
      [] j.json = "number" -> GoFloat64(j.v)
      [] j.json = "object" ->
            GoMap([k \in {j.v[n][1] : n \in 1..Len(j.v)} |-> Unmarshal(Member(j, k))])
      [] OTHER -> GoSlice([n \in 1..Len(j.v) |-> Unmarshal(j.v[n])])

\* time.Time: the wall clock reading, and whether a monotonic reading is attached
Time(wall, mono) == [wall |-> wall, mono |-> mono]

\* Time.MarshalJSON: RFC 3339 text of the wall clock reading
MarshalTime(t) == JString(<<"RFC3339", t.wall>>)

\* Time.UnmarshalJSON
UnmarshalTime(j) == Time(j.v[2], FALSE)

\* `json:"name,omitempty"`
MarshalName(name) == IF name = <<>> THEN <<>> ELSE <<<<"name", JString(name)>>>>

\* json.MarshalIndent(session, "", "  ")
MarshalSession(session) ==
    JObject(<<<<"id", JString(session.ID)>>>>
            \o MarshalName(session.Name)
            \o <<<<"model", JString(session.Model)>>,
                 <<"created_at", MarshalTime(session.CreatedAt)>>,
                 <<"updated_at", MarshalTime(session.UpdatedAt)>>,
                 <<"messages", JArray([n \in 1..Len(session.Messages) |->
                                          Marshal(session.Messages[n])])>>,
                 <<"tokens", JObject(<<<<"input", JNumber(session.Tokens.Input)>>,
                                       <<"output", JNumber(session.Tokens.Output)>>>>)>>>>)

\* json.Unmarshal(data, &session): a member that is absent leaves the zero value
UnmarshalSession(data) ==
    [ID |-> Member(data, "id").v,
     Name |-> IF HasMember(data, "name") THEN Member(data, "name").v ELSE <<>>,
     Model |-> Member(data, "model").v,
     CreatedAt |-> UnmarshalTime(Member(data, "created_at")),
     UpdatedAt |-> UnmarshalTime(Member(data, "updated_at")),
     Messages |-> LET arr == Member(data, "messages").v
                  IN  [n \in 1..Len(arr) |-> Unmarshal(arr[n])],
     Tokens |-> [Input |-> Member(Member(data, "tokens"), "input").v,
                 Output |-> Member(Member(data, "tokens"), "output").v]]

\* the position of the last path separator of a key, 0 when it has none
LastSeparator(k) ==
    IF \E n \in 1..Len(k) : k[n] = "/"
    THEN CHOOSE n \in 1..Len(k) : k[n] = "/" /\ \A m \in (n + 1)..Len(k) : k[m] # "/"
    ELSE 0

\* filepath.Join(m.sessionsDir, k+".json"): the directories below sessionsDir
\* the path goes through, and the file's name without ".json"
PathDir(k) == SelectSeq(SubSeq(k, 1, LastSeparator(k)), LAMBDA c : c # "/")
PathFile(k) == SubSeq(k, LastSeparator(k) + 1, Len(k))

\* sessionsDir holds files only, so only a path without directories can be
\* written or found
InSessionsDir(k) == PathDir(k) = <<>>

\* os.Stat(path) finds the file
Exists(fs, k) == InSessionsDir(k) /\ PathFile(k) \in DOMAIN fs

\* os.WriteFile(path, data, 0644); an error leaves the directory as it was
WriteFileOk(k) == InSessionsDir(k)
WriteFile(fs, k, data) ==
    IF WriteFileOk(k)
    THEN [f \in DOMAIN fs \cup {PathFile(k)} |-> IF f = PathFile(k) THEN data ELSE fs[f]]
    ELSE fs

\* os.Remove(path), errors ignored
Remove(fs, k) ==
    IF Exists(fs, k) THEN [f \in DOMAIN fs \ {PathFile(k)} |-> fs[f]] ELSE fs

IsPrefix(p, q) == Len(p) <= Len(q) /\ SubSeq(q, 1, Len(p)) = p

\* filepath.Glob(filepath.Join(m.sessionsDir, k+"*.json"))
Glob(fs, k) ==
    IF InSessionsDir(k) THEN {f \in DOMAIN fs : IsPrefix(PathFile(k), f)} ELSE {}

ErrWriteSession == <<"failed to write session file">>
ErrNotFound == <<"session not found">>
ErrMultiple == <<"multiple sessions match">>

\* the ids, names and keys of the sessions stored and loaded
StoreIDs == {<<"a", "b">>, <<"b">>}
StoreNames == {<<>>, <<"a">>, <<"a", "/", "n">>, <<"a", "b">>}
StoreKeys == StoreIDs \cup (StoreNames \ {<<>>})

\* the messages of a session: text, function_call and function_response parts
TextMessage(role, text) ==
    GoMap([role |-> GoString(role),
           parts |-> GoMapSlice(<<GoMap([text |-> GoString(text)])>>)])

CallMessage ==
    GoMap([role |-> GoString("model"),
           parts |-> GoMapSlice(<<GoMap([functionCall |->
                        GoMap([name |-> GoString("read_file"),
                               args |-> GoMap([path |-> GoString("f")])])])>>)])

ResponseMessage ==
    GoMap([role |-> GoString("user"),
           parts |-> GoMapSlice(<<GoMap([functionResponse |->
                        GoMap([name |-> GoString("read_file"),
                               response |-> GoMap([text |-> GoString("ok")])])])>>)])

StoreContents ==
    {[Messages |-> <<>>, Tokens |-> [Input |-> 0, Output |-> 0]],
     [Messages |-> <<TextMessage("user", "hi"), CallMessage, ResponseMessage,
                     TextMessage("model", "a")>>,
      Tokens |-> [Input |-> 6, Output |-> 4]]}

\* the sessions handed to Save
StoreSessions ==
    {[ID |-> id, Name |-> name, Model |-> ModelFreeDefault,
      CreatedAt |-> Time(0, TRUE), UpdatedAt |-> Time(0, TRUE),
      Messages |-> c.Messages, Tokens |-> c.Tokens] :
        id \in StoreIDs, name \in StoreNames, c \in StoreContents}

\* the clock readings that fall in one second
TicksPerSecond == 4

Digits == <<"0", "1", "2", "3", "4", "5", "6", "7", "8", "9">>

\* now.Format("20060102-150405"): the time to the second
FormatID(now) == <<"t", Digits[(now \div TicksPerSecond) + 1]>>

\* Manager.NewSession(model), the clock reading now
NewSession(model, now) ==
    [ID |-> FormatID(now), Name |-> <<>>, Model |-> model,
     CreatedAt |-> Time(now, TRUE), UpdatedAt |-> Time(now, TRUE),
     Messages |-> <<>>, Tokens |-> [Input |-> 0, Output |-> 0]]

StoreInit ==
    /\ ReplOff /\ FallbackOff /\ OneShotOff /\ TuiOff /\ UiOff
    /\ files = <<>>
    /\ currentID = <<>>
    /\ stNow = 1
    /\ stOps = 0
    /\ stLast = NoStoreOp
    /\ currentSession = <<>>
    /\ stCreated = 0

\* the files after Save wrote the session and, for a named session, its alias
FilesAfterSave(fs, session, data) ==
    LET main == WriteFile(fs, session.ID, data)
    IN  IF session.Name # <<>>
        THEN WriteFile(Remove(main, session.Name), session.Name, data)
        ELSE main

\* a store operation, what it was given and what it returned, and the clock then
StoreOp(op, key, session, err) ==
    [op |-> op, key |-> key, session |-> session, err |-> err, at |-> stNow]

\* the session after Save set its UpdatedAt
Stamped(s) == [s EXCEPT !.UpdatedAt = Time(stNow, TRUE)]

\* what Manager.Save(s) does to the clock and to the files fs, and what it returns
\* to the operation op that called it
SaveTo(op, key, fs, s) ==
    LET session == Stamped(s)
        data == MarshalSession(session)
    IN  /\ stNow' = stNow + 1
        /\ IF WriteFileOk(session.ID)
           THEN /\ files' = FilesAfterSave(fs, session, data)
                /\ stLast' = StoreOp(op, key, <<session>>, NoError)
           ELSE /\ files' = fs
                /\ stLast' = StoreOp(op, key, <<session>>, ErrWriteSession)

SaveSession(s) == SaveTo("save", s.ID, files, s)

\* Manager.Save(session)
Save(s) ==
    /\ stOps < MaxStoreOps
    /\ stOps' = stOps + 1
    /\ SaveSession(s)
    /\ UNCHANGED <<currentID, currentSession, stCreated>>
    /\ UNCHANGED <<replVars, fbVars, rsVars, appVars, uiVars>>

\* the file Load reads for a key: the exact match, or the only match of the glob
LoadPath(fs, k) ==
    IF Exists(fs, k) THEN <<PathFile(k)>>
    ELSE IF Cardinality(Glob(fs, k)) = 1 THEN <<CHOOSE f \in Glob(fs, k) : TRUE>>
    ELSE <<>>

\* a Load that knows no ambiguity: several matches are reported as none
LoadErrorNoAmbiguity(fs, k) ==
    IF Exists(fs, k) THEN NoError
    ELSE IF Cardinality(Glob(fs, k)) = 1 THEN NoError
    ELSE ErrNotFound

LoadError(fs, k) ==
    IF Exists(fs, k) THEN NoError
    ELSE IF Glob(fs, k) = {} THEN ErrNotFound
    ELSE IF Cardinality(Glob(fs, k)) > 1 THEN ErrMultiple
    ELSE NoError

\* the session Load(k) decodes, when it finds one
Loaded(fs, k) == UnmarshalSession(fs[LoadPath(fs, k)[1]])

\* what Manager.Load(k) does to the manager, and what it returns
LoadSession(k) ==
    IF LoadError(files, k) = NoError
    THEN /\ currentID' = Loaded(files, k).ID
         /\ stLast' = StoreOp("load", k, <<Loaded(files, k)>>, NoError)
    ELSE /\ currentID' = currentID
         /\ stLast' = StoreOp("load", k, <<>>, LoadError(files, k))

\* Manager.Load(idOrName)
Load(k) ==
    /\ stOps < MaxStoreOps
    /\ stOps' = stOps + 1
    /\ LoadSession(k)
    /\ UNCHANGED <<files, stNow, currentSession, stCreated>>
    /\ UNCHANGED <<replVars, fbVars, rsVars, appVars, uiVars>>

\* Manager.Rename(idOrName, newName)
Rename(k, newName) ==
    /\ stOps < MaxStoreOps
    /\ stOps' = stOps + 1
    /\ IF LoadError(files, k) = NoError
       THEN LET session == Loaded(files, k)
                unaliased == IF session.Name # <<>> THEN Remove(files, session.Name)
                             ELSE files
            IN  /\ currentID' = session.ID
                /\ SaveTo("rename", k, unaliased, [session EXCEPT !.Name = newName])
       ELSE /\ stLast' = StoreOp("rename", k, <<>>, LoadError(files, k))
            /\ UNCHANGED <<files, stNow, currentID>>
    /\ UNCHANGED <<currentSession, stCreated>>
    /\ UNCHANGED <<replVars, fbVars, rsVars, appVars, uiVars>>

\* Manager.NewSession(model): the session is the caller's current one
NewSessionCall(model) ==
    /\ stCreated < MaxSessions
    /\ stCreated' = stCreated + 1
    /\ currentSession' = <<NewSession(model, stNow)>>
    /\ currentID' = FormatID(stNow)
    /\ stNow' = stNow + 1
    /\ stLast' = StoreOp("new", FormatID(stNow), currentSession', NoError)
    /\ UNCHANGED <<files, stOps>>
    /\ UNCHANGED <<replVars, fbVars, rsVars, appVars, uiVars>>

\* time goes by: the clock reaches the next second
SecondPasses ==
    /\ stNow \div TicksPerSecond < MaxSeconds
    /\ stNow' = ((stNow \div TicksPerSecond) + 1) * TicksPerSecond
    /\ UNCHANGED <<files, currentID, stOps, stLast, currentSession, stCreated>>
    /\ UNCHANGED <<replVars, fbVars, rsVars, appVars, uiVars>>

\* Manager.Save(session) of the caller's current session, a pointer
SaveCurrent ==
    /\ currentSession # <<>>
    /\ stOps < MaxStoreOps
    /\ stOps' = stOps + 1
    /\ SaveSession(currentSession[1])
    /\ currentSession' = <<Stamped(currentSession[1])>>
    /\ UNCHANGED <<currentID, stCreated>>
    /\ UNCHANGED <<replVars, fbVars, rsVars, appVars, uiVars>>

\* the keys of sessions made by NewSession: an id of the first second, one of the
\* next, and what the ids have in common
SessionKeys == {FormatID(0), FormatID(TicksPerSecond), <<"t">>}

\* sessions are made by NewSession, saved, and loaded
SessionNext ==
    \/ NewSessionCall(ModelFreeDefault)
    \/ SaveCurrent
    \/ SecondPasses
    \/ \E k \in SessionKeys : Load(k)

SessionSpec == StoreInit /\ [][SessionNext]_vars

\* Manager.Delete(idOrName)
Delete(k) ==
    /\ stOps < MaxStoreOps
    /\ stOps' = stOps + 1
    /\ IF LoadError(files, k) = NoError
       THEN LET session == Loaded(files, k)
                unfiled == Remove(files, session.ID)
            IN  /\ currentID' = session.ID
                /\ files' = IF session.Name # <<>> THEN Remove(unfiled, session.Name)
                            ELSE unfiled
                /\ stLast' = StoreOp("delete", k, <<session>>, NoError)
       ELSE /\ stLast' = StoreOp("delete", k, <<>>, LoadError(files, k))
            /\ UNCHANGED <<files, currentID>>
    /\ UNCHANGED <<stNow, currentSession, stCreated>>
    /\ UNCHANGED <<replVars, fbVars, rsVars, appVars, uiVars>>

\* the characters of file names in byte order; "." comes before them all
CharOrder == <<"/", "0", "1", "2", "3", "4", "5", "6", "7", "8", "9", "a", "b", "n", "t">>
CharRank(c) == CHOOSE n \in 1..Len(CharOrder) : CharOrder[n] = c

\* p+".json" sorts before q+".json"
NameBefore(p, q) ==
    \E n \in 1..Len(q) :
        /\ n <= Len(p) + 1
        /\ \A m \in 1..(n - 1) : p[m] = q[m]
        /\ n = Len(p) + 1 \/ CharRank(p[n]) < CharRank(q[n])

\* the file List keeps for an id: os.ReadDir sorts by file name, and a file whose id
\* was seen is skipped
FirstFileOf(fs, id) ==
    CHOOSE f \in DOMAIN fs :
        /\ UnmarshalSession(fs[f]).ID = id
        /\ \A g \in DOMAIN fs : (UnmarshalSession(fs[g]).ID = id /\ g # f) => NameBefore(f, g)

\* the sessions List collects, one for an id
Listed(fs) ==
    {UnmarshalSession(fs[FirstFileOf(fs, id)]) : id \in {UnmarshalSession(fs[f]).ID : f \in DOMAIN fs}}

\* sort.Slice(sessions, ...): newest first
NewestFirst(sessions) ==
    [n \in 1..Cardinality(sessions) |->
        CHOOSE x \in sessions :
            Cardinality({y \in sessions : y.UpdatedAt.wall > x.UpdatedAt.wall}) = n - 1]

\* Manager.List()
List(fs) == NewestFirst(Listed(fs))

ErrNoSessions == <<"no sessions found">>

\* a call of Manager.List()
ListCall ==
    /\ stOps < MaxStoreOps
    /\ stOps' = stOps + 1
    /\ stLast' = StoreOp("list", <<>>, List(files), NoError)
    /\ UNCHANGED <<files, currentID, stNow, currentSession, stCreated>>
    /\ UNCHANGED <<replVars, fbVars, rsVars, appVars, uiVars>>

\* Manager.LoadLatest()
LoadLatest ==
    /\ stOps < MaxStoreOps
    /\ stOps' = stOps + 1
    /\ IF List(files) = <<>>
       THEN /\ stLast' = StoreOp("latest", <<>>, <<>>, ErrNoSessions)
            /\ UNCHANGED currentID
       ELSE LET k == List(files)[1].ID
            IN  IF LoadError(files, k) = NoError
                THEN /\ currentID' = Loaded(files, k).ID
                     /\ stLast' = StoreOp("latest", k, <<Loaded(files, k)>>, NoError)
                ELSE /\ currentID' = currentID
                     /\ stLast' = StoreOp("latest", k, <<>>, LoadError(files, k))
    /\ UNCHANGED <<files, stNow, currentSession, stCreated>>
    /\ UNCHANGED <<replVars, fbVars, rsVars, appVars, uiVars>>

StoreNext ==
    \/ \E s \in StoreSessions : Save(s)
    \/ \E k \in StoreKeys : Load(k)
    \/ \E k \in StoreKeys, newName \in StoreNames \ {<<>>} : Rename(k, newName)
    \/ \E k \in StoreKeys : Delete(k)
    \/ ListCall
    \/ LoadLatest

StoreSpec == StoreInit /\ [][StoreNext]_vars

(***************************************************************************)
(* cmd/chat.go: the session of the chat; autoSave, resume and /load.       *)
(***************************************************************************)
\* autoSave: the history in session format
SessionMessages(h) ==
    [m \in 1..Len(h) |->
        GoMap([role |-> GoString(h[m].Role),
               parts |-> GoMapSlice([j \in 1..Len(h[m].Parts) |->
                                        GoMap([text |-> GoString(h[m].Parts[j].Text)])])])]

\* msg["role"].(string)
RestoredRole(msg) ==
    IF "role" \in DOMAIN msg.v /\ msg.v["role"].go = "string" THEN msg.v["role"].v ELSE ""

\* partMap["text"].(string) of a p.(map[string]interface{})
HasTextString(p) ==
    /\ p.go = "map"
    /\ "text" \in DOMAIN p.v
    /\ p.v["text"].go = "string"

\* msg["parts"].([]interface{}): a text part for every part that holds a text
RestoredParts(msg) ==
    IF "parts" \in DOMAIN msg.v /\ msg.v["parts"].go = "[]interface{}"
    THEN LET kept == SelectSeq(msg.v["parts"].v, HasTextString)
         IN  [j \in 1..Len(kept) |-> TextPart(kept[j].v["text"].v)]
    ELSE <<>>

\* the history restored from the messages of a session
RestoredHistory(messages) ==
    [m \in 1..Len(messages) |->
        [Role |-> RestoredRole(messages[m]), Parts |-> RestoredParts(messages[m])]]

\* the call of a tool as the agent loop stores it
StoredCall(hasID) == [ID |-> IF hasID THEN <<"call", "#", 1>> ELSE NoID,
                      Name |-> "read_file", Args |-> "args"]

\* a user turn answered by text, and one answered after a tool call
PlainExchange == <<Content("user", TextPart(<<"q">>)), Content("model", TextPart(<<"a">>))>>

ToolExchange(callPart, response) ==
    <<Content("user", TextPart(<<"q">>))>>
    \o ToolTurns(callPart, ResponseID(callPart.FunctionCall[1], 1), response)
    \o <<Content("model", TextPart(<<"a">>))>>

\* histories the agent loop leaves behind
ResumeHistories ==
    {<<>>, PlainExchange, PlainExchange \o PlainExchange}
    \cup {ToolExchange(SignedPart(StoredCall(hasID), sig), response) \o rest :
            hasID \in BOOLEAN, sig \in ThoughtSignatures,
            response \in {ExecOkResponse, CancelledResponse}, rest \in {<<>>, PlainExchange}}
    \cup {ToolExchange(BarePart(StoredCall(TRUE)), ExecOkResponse)}

ResumeTokens ==
    {[input |-> n * Usage.PromptTokenCount, output |-> n * Usage.CandidatesTokenCount] :
        n \in 0..1}

ResumeInit ==
    /\ \E h \in ResumeHistories, tokens \in ResumeTokens : ReplStart(h, tokens)
    /\ script.mode = "free" /\ script.part = "nil"
    /\ FallbackOff /\ OneShotOff /\ TuiOff /\ UiOff
    /\ files = <<>>
    /\ stNow = 1
    /\ stOps = 0
    /\ stLast = NoStoreOp
    /\ currentSession = <<NewSession(effectiveModel, 0)>>
    /\ stCreated = 1
    /\ currentID = FormatID(0)

\* what a restored session leaves alone in the chat
resumeFrame == <<allowedTools, yoloMode, pc, modelName, i, historyLenBefore, success,
                 fullResponse, pendingToolCallParts, next, streamPos, chunks, result, script,
                 clock, nextCallID, submits, freeCalls, histBefore, allowBefore, genCalls,
                 streamsOpened, emitted, resolved, written>>

\* autoSave()
AutoSave ==
    /\ pc = "idle"
    /\ currentSession # <<>>
    /\ stOps < MaxStoreOps
    /\ stOps' = stOps + 1
    /\ LET session == [currentSession[1] EXCEPT
                          !.Messages = SessionMessages(history),
                          !.Tokens = [Input |-> sessionTokens.input,
                                      Output |-> sessionTokens.output],
                          !.Model = effectiveModel]
       IN  /\ SaveSession(session)
           /\ currentSession' = <<Stamped(session)>>
    /\ UNCHANGED <<currentID, stCreated>>
    /\ UNCHANGED <<replVars, fbVars, rsVars, appVars, uiVars>>

\* the /load command
LoadCommand(k) ==
    /\ pc = "idle"
    /\ stOps < MaxStoreOps
    /\ stOps' = stOps + 1
    /\ LoadSession(k)
    /\ IF LoadError(files, k) = NoError
       THEN LET loadedSession == Loaded(files, k)
            IN  /\ history' = RestoredHistory(loadedSession.Messages)
                /\ currentSession' = <<loadedSession>>
                /\ sessionTokens' = [input |-> loadedSession.Tokens.Input,
                                     output |-> loadedSession.Tokens.Output]
                /\ effectiveModel' = loadedSession.Model
       ELSE UNCHANGED <<history, currentSession, sessionTokens, effectiveModel>>
    /\ UNCHANGED <<files, stNow, stCreated>>
    /\ UNCHANGED <<resumeFrame, fbVars, rsVars, appVars, uiVars>>

\* the keys given to /load: the id of the session, and a name no session has
ResumeKeys == {FormatID(0), <<"n">>}

ResumeNext ==
    \/ AutoSave
    \/ \E k \in ResumeKeys : LoadCommand(k)

ResumeSpec == ResumeInit /\ [][ResumeNext]_vars

(***************************************************************************)
(* internal/tui: App.  A command (tea.Cmd) runs in a goroutine of its own  *)
(* and hands the message it returns to Update; Update and the key handlers *)
(* run on the program's goroutine.  A step of a command is the reading of  *)
(* one stream event, and a tool runs in one step.                          *)
(***************************************************************************)
\* api.StreamEvent values other than tool_call
TextEvent(t) == [Type |-> "text", Text |-> t]
DoneEvent(usage) == [Type |-> "done", Usage |-> usage]
ErrorEvent(e) == [Type |-> "error", Error |-> e]

\* a function call of the backend: the n-th call, with or without an id
TuiCall(name, n, hasID) ==
    [ID |-> IF hasID THEN <<"call", "#", n>> ELSE NoID, Name |-> name, Args |-> "args"]

\* a tool_call event carrying the full part
SignedCallEvent(call) == ToolCallEvent(call, <<SignedPart(call, "sig")>>)

\* what the streams of a freely behaving backend hold
TuiStreams ==
    { <<TextEvent(<<"a">>), DoneEvent(<<Usage>>)>>,
      <<TextEvent(<<"a">>)>>,
      <<TextEvent(<<"a">>), ErrorEvent(ErrStreamEvent)>>,
      <<ErrorEvent(ErrStreamEvent)>>,
      <<SignedCallEvent(TuiCall("read_file", 1, TRUE)), DoneEvent(<<Usage>>)>>,
      <<TextEvent(<<"a">>), SignedCallEvent(TuiCall("shell", 1, TRUE)), DoneEvent(<<>>)>>,
      <<SignedCallEvent(TuiCall("read_file", 1, TRUE)),
        SignedCallEvent(TuiCall("shell", 2, TRUE)), DoneEvent(<<Usage>>)>>,
      <<ToolCallEvent(TuiCall("bogus", 1, FALSE), <<>>), DoneEvent(<<>>)>> }

\* the stream of the backend that answers every request with a tool call
TuiLoopStream == <<SignedCallEvent(TuiCall("read_file", 1, TRUE)), DoneEvent(<<Usage>>)>>

\* the tool calls a stream holds, in order
CallsOf(events) ==
    LET calls == SelectSeq(events, LAMBDA e : e.Type = "tool_call")
    IN  [k \in 1..Len(calls) |-> calls[k].ToolCall]

\* the done events of a stream that carry usage
UsagesOf(events) ==
    Len(SelectSeq(events, LAMBDA e : e.Type = "done" /\ e.Usage # <<>>))

\* the commands; every message sent starts one, and a command that returns is
\* followed by at most one other, so no more than MaxTuiSubmits run at a time
StreamCmd == [kind |-> "stream", pos |-> "open", events |-> <<>>, fullText |-> <<>>]
ToolCmd(call, part) == [kind |-> "tool", pos |-> "run", call |-> call, part |-> part]

\* the messages
streamDoneMsg(usage) == [type |-> "streamDoneMsg", usage |-> usage]
streamErrorMsg(err) == [type |-> "streamErrorMsg", err |-> err]
toolCallMsg(call, part) == [type |-> "toolCallMsg", call |-> call, part |-> part]
toolResultMsg(toolName, err, cancelled) ==
    [type |-> "toolResultMsg", toolName |-> toolName, err |-> err, cancelled |-> cancelled]

RemoveAt(q, k) == SubSeq(q, 1, k - 1) \o SubSeq(q, k + 1, Len(q))

\* the GenerateStream calls a run may make
TuiCallLimit == IF appScript = "loop" THEN maxIterations + 1 ELSE MaxTuiCalls

TuiInit ==
    /\ ReplOff /\ FallbackOff /\ OneShotOff /\ UiOff
    /\ appHistory = <<>> /\ appLoading = FALSE
    /\ appTokens = [input |-> 0, output |-> 0]
    /\ appAllowList = NewAllowList /\ appYolo \in BOOLEAN
    /\ appCmds = <<>> /\ appMsgs = <<>> /\ appScript \in {"free", "loop"}
    /\ appSubmits = 0 /\ appClears = 0 /\ appCalls = 0 /\ appLenBefore = 0
    /\ appEmitted = <<>> /\ appDone = 0
    /\ files = <<>>
    /\ stNow = 1
    /\ stOps = 0
    /\ stLast = NoStoreOp
    /\ currentSession = <<NewSession(ModelFreeDefault, 0)>>
    /\ stCreated = 1
    /\ currentID = FormatID(0)

\* what the TUI leaves alone
tuiFrame == <<replVars, fbVars, rsVars, stOps, stCreated, currentID, uiVars>>

\* App.autoSave()
AppAutoSave(h, tokens) ==
    IF currentSession = <<>>
    THEN UNCHANGED <<files, stNow, stLast, currentSession>>
    ELSE LET session == [currentSession[1] EXCEPT
                            !.Messages = SessionMessages(h),
                            !.Tokens = [Input |-> tokens.input, Output |-> tokens.output],
                            !.Model = ModelFreeDefault]
         IN  /\ SaveSession(session)
             /\ currentSession' = <<Stamped(session)>>

\* App.sendMessage(text), from the Enter key
sendMessage(text) ==
    /\ appScript # "off"
    /\ appSubmits < (IF appScript = "loop" THEN 1 ELSE MaxTuiSubmits)
    /\ appSubmits' = appSubmits + 1
    /\ appLenBefore' = Len(appHistory)
    /\ appEmitted' = <<>>
    /\ appHistory' = Append(appHistory, Content("user", TextPart(text)))
    /\ appLoading' = TRUE
    /\ appCmds' = Append(appCmds, StreamCmd)
    /\ UNCHANGED <<appTokens, appAllowList, appYolo, appMsgs, appScript, appClears, appCalls,
                   appDone>>
    /\ UNCHANGED <<files, stNow, stLast, currentSession>>
    /\ UNCHANGED tuiFrame

\* the ClearChat key
ClearChat ==
    /\ appScript = "free"
    /\ appClears < MaxTuiClears
    /\ appClears' = appClears + 1
    /\ appHistory' = <<>>
    /\ UNCHANGED <<appLoading, appTokens, appAllowList, appYolo, appCmds, appMsgs, appScript,
                   appSubmits, appCalls, appLenBefore, appEmitted, appDone>>
    /\ UNCHANGED <<files, stNow, stLast, currentSession>>
    /\ UNCHANGED tuiFrame

\* an allow-list that does not outlive the session
AllowListOfNewSession(allowed) == NewAllowList

\* a.allowList when the session changes: newSession and loadSession leave it alone
AllowListOfSession(allowed) == allowed

\* App.newSession(), from the NewSession key or /new
newSession ==
    /\ appScript = "free"
    /\ appClears < MaxTuiClears
    /\ appClears' = appClears + 1
    /\ appHistory' = <<>>
    /\ appTokens' = [input |-> 0, output |-> 0]
    /\ appAllowList' = AllowListOfSession(appAllowList)
    /\ currentSession' = <<NewSession(ModelFreeDefault, stNow)>>
    /\ currentID' = FormatID(stNow)
    /\ stCreated' = stCreated + 1
    /\ stNow' = stNow + 1
    /\ stLast' = StoreOp("new", FormatID(stNow), currentSession', NoError)
    /\ UNCHANGED <<appLoading, appYolo, appCmds, appMsgs, appScript, appSubmits, appCalls,
                   appLenBefore, appEmitted, appDone>>
    /\ UNCHANGED <<files, stOps>>
    /\ UNCHANGED <<replVars, fbVars, rsVars, uiVars>>

\* App.loadSession(idOrName), from /load; the command runs in one step
loadSession(k) ==
    /\ appScript = "free"
    /\ appClears < MaxTuiClears
    /\ appClears' = appClears + 1
    /\ LoadSession(k)
    /\ appAllowList' = AllowListOfSession(appAllowList)
    /\ IF LoadError(files, k) = NoError
       THEN LET loadedSession == Loaded(files, k)
            IN  /\ currentSession' = <<loadedSession>>
                /\ appHistory' = RestoredHistory(loadedSession.Messages)
                /\ appTokens' = [input |-> loadedSession.Tokens.Input,
                                 output |-> loadedSession.Tokens.Output]
                /\ UNCHANGED appMsgs
       ELSE /\ appMsgs' = Append(appMsgs, streamErrorMsg(LoadError(files, k)))
            /\ UNCHANGED <<currentSession, appHistory, appTokens>>
    /\ UNCHANGED <<appLoading, appYolo, appCmds, appScript, appSubmits, appCalls,
                   appLenBefore, appEmitted, appDone>>
    /\ UNCHANGED <<files, stNow, stOps, stCreated>>
    /\ UNCHANGED <<replVars, fbVars, rsVars, uiVars>>

\* startStreamingWithUpdates: a.client.GenerateStream(ctx, req)
GenerateStream(c) ==
    /\ c \in DOMAIN appCmds
    /\ appCmds[c].kind = "stream" /\ appCmds[c].pos = "open"
    /\ appCalls < TuiCallLimit
    /\ appCalls' = appCalls + 1
    /\ \/ /\ appScript = "free"
          /\ appCmds' = RemoveAt(appCmds, c)
          /\ appMsgs' = Append(appMsgs, streamErrorMsg(ErrStreamOpen))
          /\ UNCHANGED <<appEmitted, appDone>>
       \/ \E events \in (IF appScript = "loop" THEN {TuiLoopStream} ELSE TuiStreams) :
            /\ appCmds' = [appCmds EXCEPT ![c].pos = "events", ![c].events = events]
            /\ appEmitted' = appEmitted \o CallsOf(events)
            /\ appDone' = appDone + UsagesOf(events)
            /\ UNCHANGED appMsgs
    /\ UNCHANGED <<appHistory, appLoading, appTokens, appAllowList, appYolo, appScript,
                   appSubmits, appClears, appLenBefore>>
    /\ UNCHANGED <<files, stNow, stLast, currentSession>>
    /\ UNCHANGED tuiFrame

\* the text of the stream so far, appended as a model turn if there is any
WithFullText(h, fullText) ==
    IF fullText # <<>> THEN Append(h, Content("model", TextPart(fullText))) ELSE h

\* startStreamingWithUpdates: one round of "for event := range stream", and what
\* follows the loop when the stream is closed
StreamEvent(c) ==
    /\ c \in DOMAIN appCmds
    /\ appCmds[c].kind = "stream" /\ appCmds[c].pos = "events"
    /\ LET cmd == appCmds[c]
           returns(msg) ==
               /\ appCmds' = RemoveAt(appCmds, c)
               /\ appMsgs' = Append(appMsgs, msg)
       IN  IF cmd.events = <<>>
           THEN /\ appHistory' = WithFullText(appHistory, cmd.fullText)
                /\ returns(streamDoneMsg(<<>>))
           ELSE LET event == Head(cmd.events)
                IN  CASE event.Type = "error" ->
                           /\ returns(streamErrorMsg(event.Error))
                           /\ UNCHANGED appHistory
                      [] event.Type = "tool_call" ->
                           /\ appHistory' = WithFullText(appHistory, cmd.fullText)
                           /\ returns(toolCallMsg(event.ToolCall, event.ToolCallPart))
                      [] event.Type = "done" ->
                           /\ appHistory' = WithFullText(appHistory, cmd.fullText)
                           /\ returns(streamDoneMsg(event.Usage))
                      [] OTHER ->
                           /\ appCmds' = [appCmds EXCEPT
                                             ![c].events = Tail(cmd.events),
                                             ![c].fullText = cmd.fullText \o event.Text]
                           /\ UNCHANGED <<appHistory, appMsgs>>
    /\ UNCHANGED <<appLoading, appTokens, appAllowList, appYolo, appScript, appSubmits,
                   appClears, appCalls, appLenBefore, appEmitted, appDone>>
    /\ UNCHANGED <<files, stNow, stLast, currentSession>>
    /\ UNCHANGED tuiFrame

\* App.addToolResponseToHistory(part, call, result)
addToolResponseToHistory(h, part, call, response) ==
    h \o ToolTurns(IF part # <<>> THEN part[1] ELSE BarePart(call), ResponseID(call, stNow), response)

ErrUnknownTool(name) == <<"unknown tool: %s", name>>
ErrPrompt == <<"prompt failed">>
ErrExec == <<"exec failed">>
PromptErrorResponse == <<"error", "confirmation error: ", ErrPrompt>>

\* what the confirmation prompt answers: an outcome, or an error
PromptAnswers == Outcomes \cup {"error"}

\* whether executeTool asks the user
AsksUser(name) ==
    /\ name \in RegisteredTools
    /\ RequiresConfirmation(name)
    /\ ~IsAllowed(appAllowList, name)
    /\ ~appYolo

\* App.executeTool(call, part): answer is what the prompt returns if the user is asked,
\* execOk whether the tool succeeds if it is run
executeTool(c, answer, execOk) ==
    /\ c \in DOMAIN appCmds
    /\ appCmds[c].kind = "tool"
    /\ LET call == appCmds[c].call
           part == appCmds[c].part
           returns(response, msg) ==
               /\ appHistory' = addToolResponseToHistory(appHistory, part, call, response)
               /\ appCmds' = RemoveAt(appCmds, c)
               /\ appMsgs' = Append(appMsgs, msg)
           runs == /\ IF execOk
                      THEN returns(ExecOkResponse, toolResultMsg(call.Name, NoError, FALSE))
                      ELSE returns(ExecErrorResponse, toolResultMsg(call.Name, ErrExec, FALSE))
       IN  IF call.Name \notin RegisteredTools
           THEN /\ answer = OutcomeProceedOnce /\ execOk
                /\ returns(UnknownToolResponse(call.Name),
                           toolResultMsg(call.Name, ErrUnknownTool(call.Name), FALSE))
                /\ UNCHANGED appAllowList
           ELSE IF AsksUser(call.Name)
           THEN CASE answer = "error" ->
                       /\ execOk
                       /\ returns(PromptErrorResponse, toolResultMsg(call.Name, ErrPrompt, FALSE))
                       /\ UNCHANGED appAllowList
                  [] answer = OutcomeCancel ->
                       /\ execOk
                       /\ returns(CancelledResponse, toolResultMsg(call.Name, NoError, TRUE))
                       /\ UNCHANGED appAllowList
                  [] answer = OutcomeProceedAlways ->
                       /\ appAllowList' = Allow(appAllowList, call.Name)
                       /\ runs
                  [] OTHER ->
                       /\ UNCHANGED appAllowList
                       /\ runs
           ELSE /\ answer = OutcomeProceedOnce
                /\ UNCHANGED appAllowList
                /\ runs
    /\ UNCHANGED <<appLoading, appTokens, appYolo, appScript, appSubmits, appClears, appCalls,
                   appLenBefore, appEmitted, appDone>>
    /\ UNCHANGED <<files, stNow, stLast, currentSession>>
    /\ UNCHANGED tuiFrame

\* App.Update(msg) for the message at the head of the queue
Update ==
    /\ appMsgs # <<>>
    /\ LET msg == Head(appMsgs)
       IN  CASE msg.type = "streamDoneMsg" ->
                  LET tokens == IF msg.usage # <<>>
                                THEN [input |-> appTokens.input + msg.usage[1].PromptTokenCount,
                                      output |-> appTokens.output
                                                   + msg.usage[1].CandidatesTokenCount]
                                ELSE appTokens
                  IN  /\ appLoading' = FALSE
                      /\ appTokens' = tokens
                      /\ AppAutoSave(appHistory, tokens)
                      /\ appCmds' = appCmds
             [] msg.type = "streamErrorMsg" ->
                  /\ appLoading' = FALSE
                  /\ UNCHANGED <<appTokens, appCmds, files, stNow, stLast, currentSession>>
             [] msg.type = "toolCallMsg" ->
                  /\ appCmds' = Append(appCmds, ToolCmd(msg.call, msg.part))
                  /\ UNCHANGED <<appLoading, appTokens, files, stNow, stLast, currentSession>>
             [] msg.type = "toolResultMsg" ->
                  /\ IF msg.cancelled
                     THEN /\ appLoading' = FALSE
                          /\ appCmds' = appCmds
                     ELSE /\ appCmds' = Append(appCmds, StreamCmd)
                          /\ UNCHANGED appLoading
                  /\ UNCHANGED <<appTokens, files, stNow, stLast, currentSession>>
    /\ appMsgs' = Tail(appMsgs)
    /\ UNCHANGED <<appHistory, appAllowList, appYolo, appScript, appSubmits, appClears,
                   appCalls, appLenBefore, appEmitted, appDone>>
    /\ UNCHANGED tuiFrame

TuiNext ==
    \/ \E text \in UserTexts : sendMessage(text)
    \/ ClearChat
    \/ newSession
    \/ \E k \in ResumeKeys : loadSession(k)
    \/ \E c \in 1..MaxTuiSubmits : GenerateStream(c)
    \/ \E c \in 1..MaxTuiSubmits : StreamEvent(c)
    \/ \E c \in 1..MaxTuiSubmits, answer \in PromptAnswers, execOk \in BOOLEAN :
          executeTool(c, answer, execOk)
    \/ Update

TuiSpec == TuiInit /\ [][TuiNext]_vars

(***************************************************************************)
(* internal/confirmation/prompt.go: the confirmation prompt.  The model's  *)
(* viewport and sizes are left out; ready tells whether a window size has  *)
(* arrived.                                                                *)
(***************************************************************************)
\* msg.String() of the keys the prompt knows, and "x" for any other key
PromptKeys == {"y", "Y", "enter", "n", "N", "a", "A", "q", "esc", "tab", "right", "l",
               "shift+tab", "left", "h", "j", "down", "k", "up", "ctrl+c", "x"}

\* the outcome of the highlighted button: 0 Yes, 1 No, 2 Always
ButtonOutcome(selectedBtn) ==
    IF selectedBtn = 0 THEN OutcomeProceedOnce
    ELSE IF selectedBtn = 1 THEN OutcomeCancel
    ELSE OutcomeProceedAlways

\* an Update in which esc confirms the highlighted button
PromptUpdateEscConfirms(m, key) ==
    CASE key \in {"y", "Y", "enter", "esc"} ->
            [m |-> [m EXCEPT !.outcome = ButtonOutcome(m.selectedBtn)], quit |-> TRUE]
      [] key \in {"n", "N", "q", "ctrl+c"} ->
            [m |-> [m EXCEPT !.outcome = OutcomeCancel], quit |-> TRUE]
      [] key \in {"a", "A"} ->
            [m |-> [m EXCEPT !.outcome = OutcomeProceedAlways], quit |-> TRUE]
      [] key \in {"tab", "right", "l"} ->
            [m |-> [m EXCEPT !.selectedBtn = (m.selectedBtn + 1) % 3], quit |-> FALSE]
      [] key \in {"shift+tab", "left", "h"} ->
            [m |-> [m EXCEPT !.selectedBtn = (m.selectedBtn + 2) % 3], quit |-> FALSE]
      [] OTHER -> [m |-> m, quit |-> FALSE]

\* model.Update(msg) for a tea.KeyMsg: the model after the key, and whether tea.Quit
\* was returned
PromptUpdate(m, key) ==
    CASE key \in {"y", "Y", "enter"} ->
            [m |-> [m EXCEPT !.outcome = ButtonOutcome(m.selectedBtn)], quit |-> TRUE]
      [] key \in {"n", "N"} ->
            [m |-> [m EXCEPT !.outcome = OutcomeCancel], quit |-> TRUE]
      [] key \in {"a", "A"} ->
            [m |-> [m EXCEPT !.outcome = OutcomeProceedAlways], quit |-> TRUE]
      [] key \in {"q", "esc"} ->
            [m |-> [m EXCEPT !.outcome = OutcomeCancel], quit |-> TRUE]
      [] key \in {"tab", "right", "l"} ->
            [m |-> [m EXCEPT !.selectedBtn = (m.selectedBtn + 1) % 3], quit |-> FALSE]
      [] key \in {"shift+tab", "left", "h"} ->
            [m |-> [m EXCEPT !.selectedBtn = (m.selectedBtn + 2) % 3], quit |-> FALSE]
      [] key = "ctrl+c" ->
            [m |-> [m EXCEPT !.outcome = OutcomeCancel], quit |-> TRUE]
      [] OTHER -> [m |-> m, quit |-> FALSE]

\* what the prompt leaves alone
promptFrame == <<replVars, fbVars, rsVars, stVars, appVars, shellCall, inputModel>>

\* PromptConfirmation(details): the program starts with initialModel
PromptInit ==
    /\ ReplOff /\ FallbackOff /\ OneShotOff /\ StoreOff /\ TuiOff
    /\ promptModel = [pos |-> "running", m |-> initialModel, keys |-> <<>>, returned |-> <<>>]
    /\ shellCall = [pos |-> "off", args |-> <<>>, timeout |-> <<>>]
    /\ inputModel = NewInputModel

\* a key is pressed; after tea.Quit PromptConfirmation returns the final model's outcome
PromptKey(key) ==
    /\ promptModel.pos = "running"
    /\ Len(promptModel.keys) < MaxPromptKeys
    /\ LET after == PromptUpdate(promptModel.m, key)
       IN  promptModel' =
              [pos |-> IF after.quit THEN "returned" ELSE "running",
               m |-> after.m,
               keys |-> Append(promptModel.keys, key),
               returned |-> IF after.quit
                            THEN <<[outcome |-> after.m.outcome, err |-> FALSE]>>
                            ELSE <<>>]
    /\ UNCHANGED promptFrame

\* model.Update(msg) for a tea.WindowSizeMsg
PromptWindowSize ==
    /\ promptModel.pos = "running"
    /\ promptModel' = [promptModel EXCEPT !.m.ready = TRUE]
    /\ UNCHANGED promptFrame

\* p.Run() returns an error
PromptRunFails ==
    /\ promptModel.pos = "running"
    /\ promptModel' = [promptModel EXCEPT
                          !.pos = "returned",
                          !.returned = <<[outcome |-> OutcomeCancel, err |-> TRUE]>>]
    /\ UNCHANGED promptFrame

PromptNext ==
    \/ \E key \in PromptKeys : PromptKey(key)
    \/ PromptWindowSize
    \/ PromptRunFails

PromptSpec == PromptInit /\ [][PromptNext]_vars

(***************************************************************************)
(* ShellTool.Execute: the timeout of a call.  A float64 is held in halves, *)
(* or as a value beyond the range of int on either side.  Go leaves the    *)
(* result of int(t) for such a value to the implementation: amd64 yields   *)
(* the smallest int, arm64 the nearest one.  MinInt and MaxInt stand for   *)
(* them; the code only compares the result with 0 and 300.                 *)
(***************************************************************************)
DefaultTimeout == 60
MaxTimeout == 300
MinInt == -2147483647
MaxInt == 2147483647

\* args["timeout"]: absent, a string, or a float64
TimeoutArgs ==
    {[go |-> "absent"], [go |-> "string"]}
    \cup {[go |-> "float64", range |-> "finite", halves |-> h] :
             h \in (-4)..(2 * MaxTimeoutArg)}
    \cup {[go |-> "float64", range |-> r, halves |-> 0] : r \in {"below", "above"}}

\* the float64 cut off towards zero
Truncated(halves) == IF halves >= 0 THEN halves \div 2 ELSE -((-halves) \div 2)

\* int(t): the values the conversion can give
IntOf(t) ==
    IF t.range = "finite" THEN {Truncated(t.halves)}
    ELSE IF t.range = "below" THEN {MinInt}
    ELSE {MinInt, MaxInt}

\* the timeout taken for the converted value
Clamp(timeout) ==
    IF timeout <= 0 THEN DefaultTimeout
    ELSE IF timeout > MaxTimeout THEN MaxTimeout
    ELSE timeout

shellFrame == <<replVars, fbVars, rsVars, stVars, appVars, promptModel, inputModel>>

ShellInit ==
    /\ ReplOff /\ FallbackOff /\ OneShotOff /\ StoreOff /\ TuiOff
    /\ \E arg \in TimeoutArgs : shellCall = [pos |-> "args", args |-> <<arg>>, timeout |-> <<>>]
    /\ promptModel = [pos |-> "off", m |-> initialModel, keys |-> <<>>, returned |-> <<>>]
    /\ inputModel = NewInputModel

\* ShellTool.Execute(args), up to context.WithTimeout
ShellExecute ==
    /\ shellCall.pos = "args"
    /\ LET arg == shellCall.args[1]
       IN  IF arg.go = "float64"
           THEN \E timeout \in IntOf(arg) :
                   shellCall' = [shellCall EXCEPT !.pos = "done", !.timeout = <<Clamp(timeout)>>]
           ELSE shellCall' = [shellCall EXCEPT !.pos = "done", !.timeout = <<DefaultTimeout>>]
    /\ UNCHANGED shellFrame

ShellNext == ShellExecute

ShellSpec == ShellInit /\ [][ShellNext]_vars

(***************************************************************************)
(* The input editor of the TUI: InputModel (part_003).  value is the       *)
(* string as its bytes, cursor a byte offset into it, history the          *)
(* submitted inputs, historyIdx the entry shown or -1.  width, height,     *)
(* focused and placeholder are only read by View and are left out.         *)
(***************************************************************************)
\* the longest value typed, the longest input history
MaxValueLen == 2
MaxInputHistory == 1

\* the runes typed: a letter, a space, and a rune of two bytes in UTF-8
Runes == {"a", " ", "U+00E9"}

\* string(c)
StringOfRune(c) == IF c = "U+00E9" THEN <<"0xC3", "0xA9">> ELSE <<c>>

\* the strings pasted and set
InputStrings == {<<>>, <<"a">>, <<" ", "a">>, <<"0xC3", "0xA9">>}

\* value[:n] and value[n:]
Before(str, n) == SubSeq(str, 1, n)
From(str, n) == SubSeq(str, n + 1, Len(str))

inputFrame == <<replVars, fbVars, rsVars, stVars, appVars, promptModel, shellCall>>

InputInit ==
    /\ ReplOff /\ FallbackOff /\ OneShotOff /\ StoreOff /\ TuiOff
    /\ promptModel = [pos |-> "off", m |-> initialModel, keys |-> <<>>, returned |-> <<>>]
    /\ shellCall = [pos |-> "off", args |-> <<>>, timeout |-> <<>>]
    /\ inputModel = NewInputModel

SetValue(str) ==
    /\ inputModel' = [inputModel EXCEPT !.value = str, !.cursor = Len(str)]
    /\ UNCHANGED inputFrame

Reset ==
    /\ inputModel.value # <<>> => Len(inputModel.history) < MaxInputHistory
    /\ inputModel' =
          [value |-> <<>>, cursor |-> 0,
           history |-> IF inputModel.value # <<>>
                       THEN Append(inputModel.history, inputModel.value)
                       ELSE inputModel.history,
           historyIdx |-> -1]
    /\ UNCHANGED inputFrame

InsertChar(c) ==
    /\ Len(inputModel.value) + Len(StringOfRune(c)) <= MaxValueLen
    /\ inputModel' =
          [inputModel EXCEPT
              !.value = Before(inputModel.value, inputModel.cursor) \o StringOfRune(c)
                            \o From(inputModel.value, inputModel.cursor),
              !.cursor = inputModel.cursor + 1]
    /\ UNCHANGED inputFrame

InsertString(str) ==
    /\ Len(inputModel.value) + Len(str) <= MaxValueLen
    /\ inputModel' =
          [inputModel EXCEPT
              !.value = Before(inputModel.value, inputModel.cursor) \o str
                            \o From(inputModel.value, inputModel.cursor),
              !.cursor = inputModel.cursor + Len(str)]
    /\ UNCHANGED inputFrame

DeleteChar ==
    /\ inputModel' =
          IF inputModel.cursor > 0
          THEN [inputModel EXCEPT
                   !.value = Before(inputModel.value, inputModel.cursor - 1)
                                 \o From(inputModel.value, inputModel.cursor),
                   !.cursor = inputModel.cursor - 1]
          ELSE inputModel
    /\ UNCHANGED inputFrame

DeleteCharForward ==
    /\ inputModel' =
          IF inputModel.cursor < Len(inputModel.value)
          THEN [inputModel EXCEPT
                   !.value = Before(inputModel.value, inputModel.cursor)
                                 \o From(inputModel.value, inputModel.cursor + 1)]
          ELSE inputModel
    /\ UNCHANGED inputFrame

MoveLeft ==
    /\ inputModel' =
          IF inputModel.cursor > 0
          THEN [inputModel EXCEPT !.cursor = inputModel.cursor - 1]
          ELSE inputModel
    /\ UNCHANGED inputFrame

\* MoveRight without its test of the cursor
MoveRightUnguarded ==
    /\ inputModel' = [inputModel EXCEPT !.cursor = inputModel.cursor + 1]
    /\ UNCHANGED inputFrame

MoveRight ==
    /\ inputModel' =
          IF inputModel.cursor < Len(inputModel.value)
          THEN [inputModel EXCEPT !.cursor = inputModel.cursor + 1]
          ELSE inputModel
    /\ UNCHANGED inputFrame

MoveToStart ==
    /\ inputModel' = [inputModel EXCEPT !.cursor = 0]
    /\ UNCHANGED inputFrame

MoveToEnd ==
    /\ inputModel' = [inputModel EXCEPT !.cursor = Len(inputModel.value)]
    /\ UNCHANGED inputFrame

\* the index HistoryUp moves to
HistoryUpIdx(im) ==
    IF im.historyIdx = -1 THEN Len(im.history) - 1
    ELSE IF im.historyIdx > 0 THEN im.historyIdx - 1
    ELSE im.historyIdx

HistoryUp ==
    /\ inputModel' =
          IF Len(inputModel.history) = 0 THEN inputModel
          ELSE [inputModel EXCEPT
                   !.historyIdx = HistoryUpIdx(inputModel),
                   !.value = inputModel.history[HistoryUpIdx(inputModel) + 1],
                   !.cursor = Len(inputModel.history[HistoryUpIdx(inputModel) + 1])]
    /\ UNCHANGED inputFrame

HistoryDown ==
    /\ inputModel' =
          IF inputModel.historyIdx = -1 THEN inputModel
          ELSE IF inputModel.historyIdx < Len(inputModel.history) - 1
          THEN [inputModel EXCEPT
                   !.historyIdx = inputModel.historyIdx + 1,
                   !.value = inputModel.history[inputModel.historyIdx + 2],
                   !.cursor = Len(inputModel.history[inputModel.historyIdx + 2])]
          ELSE [inputModel EXCEPT !.historyIdx = -1, !.value = <<>>, !.cursor = 0]
    /\ UNCHANGED inputFrame

\* the two loops of DeleteWord: back over spaces, then back over the word
RECURSIVE SkipSpaces(_, _)
SkipSpaces(str, start) ==
    IF start > 0 /\ str[start] = " " THEN SkipSpaces(str, start - 1) ELSE start

RECURSIVE SkipWord(_, _)
SkipWord(str, start) ==
    IF start > 0 /\ str[start] # " " THEN SkipWord(str, start - 1) ELSE start

WordStart(im) == SkipWord(im.value, SkipSpaces(im.value, im.cursor - 1))

DeleteWord ==
    /\ inputModel' =
          IF inputModel.cursor = 0 THEN inputModel
          ELSE [inputModel EXCEPT
                   !.value = Before(inputModel.value, WordStart(inputModel))
                                 \o From(inputModel.value, inputModel.cursor),
                   !.cursor = WordStart(inputModel)]
    /\ UNCHANGED inputFrame

DeleteLine ==
    /\ inputModel' = [inputModel EXCEPT !.value = <<>>, !.cursor = 0]
    /\ UNCHANGED inputFrame

InputNext ==
    \/ \E str \in InputStrings : SetValue(str)
    \/ Reset
    \/ \E c \in Runes : InsertChar(c)
    \/ \E str \in InputStrings : InsertString(str)
    \/ DeleteChar
    \/ DeleteCharForward
    \/ MoveLeft
    \/ MoveRight
    \/ MoveToStart
    \/ MoveToEnd
    \/ HistoryUp
    \/ HistoryDown
    \/ DeleteWord
    \/ DeleteLine

InputSpec == InputInit /\ [][InputNext]_vars

(***************************************************************************)
(* Properties                                                              *)
(***************************************************************************)
\* a processWithToolLoop call has returned
Returned == pc = "idle" /\ result # NotReturned

\* a call has returned an error
Failed == Returned /\ result # NoError

\* the turns of the current call are in history: it runs, or it returned nil
HistoryKept == pc # "idle" \/ result = NoError

\* the turns the current call has appended
Appended == SubSeq(history, Len(histBefore) + 1, Len(history))

CallOf(c) == c.Parts[1].FunctionCall[1]
RespOf(c) == c.Parts[1].FunctionResp[1]

CallTurns(h) == SelectSeq(h, IsFunctionCall)
RespTurns(h) == SelectSeq(h, IsFunctionResp)

\* C1: whenever processWithToolLoop has returned an error, whichever way, the
\* history is the one the call started with: same length, same turns.
C1_AtomicRollback == Failed => history = histBefore

\* a call failed on a stream error after a tool had run in an earlier iteration,
\* in a session that already had turns
C1_Witness ==
    /\ Failed /\ result = ErrStreamEvent
    /\ histBefore # <<>>
    /\ \E k \in 1..Len(resolved) : resolved[k].executed

\* C2: after every call, every function_call part of the history is followed, in
\* the next turn, by a function_response with the call's id, and that is the only
\* later function_response with this id.
C2_HistoryPairing ==
    pc = "idle" =>
        \A k \in 1..Len(history) :
            IsFunctionCall(history[k]) =>
                /\ k < Len(history)
                /\ IsFunctionResp(history[k + 1])
                /\ RespOf(history[k + 1]).ID = CallOf(history[k]).ID
                /\ Cardinality({j \in (k + 1)..Len(history) :
                        /\ IsFunctionResp(history[j])
                        /\ RespOf(history[j]).ID = CallOf(history[k]).ID}) = 1

\* C3: the id on every function_response of the history is the id of the
\* function_call part stored in the turn before it, also when the id was
\* generated locally.
C3_ResponseIdRoundTrip ==
    \A j \in 1..Len(history) :
        IsFunctionResp(history[j]) =>
            /\ j > 1
            /\ IsFunctionCall(history[j - 1])
            /\ CallOf(history[j - 1]).ID = RespOf(history[j]).ID

\* C4: the k-th function_call part a call has appended is the part the k-th
\* tool_call event carried, thought_signature included; an event that carried no
\* part gives a part with the event's call and no signature.
C4_SignaturePreservation ==
    HistoryKept =>
        LET cp == CallTurns(Appended)
        IN  /\ Len(cp) <= Len(emitted)
            /\ \A k \in 1..Len(cp) :
                   /\ cp[k].Role = "model"
                   /\ Len(cp[k].Parts) = 1
                   /\ IF emitted[k].ToolCallPart # <<>>
                      THEN cp[k].Parts[1] = emitted[k].ToolCallPart[1]
                      ELSE /\ cp[k].Parts[1].FunctionCall = <<emitted[k].ToolCall>>
                           /\ cp[k].Parts[1].ThoughtSignature = ""

\* a successful call left two signed call parts in the history, one of a cancelled
\* call and one of an unknown tool
C4_Witness ==
    /\ Returned /\ result = NoError
    /\ \E k, m \in 1..(Len(history) - 1) :
           /\ IsFunctionCall(history[k]) /\ IsFunctionCall(history[m])
           /\ history[k].Parts[1].ThoughtSignature \in ThoughtSignatures
           /\ history[m].Parts[1].ThoughtSignature \in ThoughtSignatures
           /\ RespOf(history[k + 1]).Response = CancelledResponse
           /\ RespOf(history[m + 1]).Response = UnknownToolResponse(CallOf(history[m]).Name)

\* C5: the turns a call appends are the user turn, then one (model call, user
\* response) pair per resolved call in the order the tool_call events were read,
\* then, on success, the final model text; the turns that were there stay as
\* they were.
C5_HistoryOrdering ==
    HistoryKept =>
        LET final == IF pc = "idle" THEN 1 ELSE 0
            pairs == SubSeq(Appended, 2, Len(Appended) - final)
        IN  /\ SubSeq(history, 1, Len(histBefore)) = histBefore
            /\ Len(Appended) >= 1 + final
            /\ Appended[1].Role = "user" /\ IsText(Appended[1])
            /\ final = 1 => /\ Appended[Len(Appended)].Role = "model"
                            /\ IsText(Appended[Len(Appended)])
            /\ Len(pairs) = 2 * Len(resolved)
            /\ Len(resolved) <= Len(emitted)
            /\ pc \in {"idle", "iterate"} => Len(resolved) = Len(emitted)
            /\ \A k \in 1..Len(resolved) :
                   /\ pairs[2 * k - 1].Role = "model"
                   /\ IsFunctionCall(pairs[2 * k - 1])
                   /\ CallOf(pairs[2 * k - 1]) = emitted[k].ToolCall
                   /\ pairs[2 * k].Role = "user"
                   /\ IsFunctionResp(pairs[2 * k])
                   /\ RespOf(pairs[2 * k]).Name = emitted[k].ToolCall.Name

\* two different calls came in one stream and both are resolved, in a session
\* that already had turns
C5_Witness ==
    /\ pc = "tools"
    /\ Len(pendingToolCallParts) = 2 /\ next = 3
    /\ CallOf(Content("model", pendingToolCallParts[1])).Name
           # CallOf(Content("model", pendingToolCallParts[2])).Name
    /\ histBefore # <<>>

\* C6, as stated: one call invokes client.GenerateStream at most maxIterations
\* times.
C6_IterationBound == genCalls <= maxIterations

\* C6, amended: one call opens at most maxIterations streams, one per iteration,
\* and invokes client.GenerateStream at most maxIterations plus the number of
\* fallback steps the list allows.
C6_IterationBoundWithFallback ==
    /\ streamsOpened <= maxIterations
    /\ genCalls <= maxIterations + (Len(FallbackModels) - 1)

\* ten streams were opened with twelve GenerateStream calls
C6_Witness ==
    /\ streamsOpened = maxIterations
    /\ genCalls = maxIterations + (Len(FallbackModels) - 1)

\* C7: against the backend that answers every request with one tool call and no
\* final text, a call whose first stream opened returns, after exactly
\* maxIterations streams, the error "max tool iterations (10) reached", and the
\* history is the one it started with.
C7_IterationCapTermination ==
    (pc # "idle" /\ streamsOpened >= 1)
        ~> (/\ Returned /\ result = ErrMaxIterations
            /\ streamsOpened = maxIterations
            /\ Len(emitted) = maxIterations
            /\ history = histBefore)

\* the cap was hit in a session that started empty, after ten executed calls
C7_Witness ==
    /\ Returned /\ result = ErrMaxIterations
    /\ streamsOpened = maxIterations
    /\ histBefore = <<>> /\ history = <<>>
    /\ Len(resolved) = maxIterations
    /\ \A k \in 1..Len(resolved) : resolved[k].executed

\* C8: a tool that requires confirmation is executed only if it was on the
\* allow-list, or yolo mode is on, or the prompt shown for this call gave
\* proceed_once or proceed_always; a call answered with cancel is not executed
\* and its stored response is exactly the cancelled error.
C8_ConfirmationGateSafety ==
    \A k \in 1..Len(resolved) :
        /\ (resolved[k].executed /\ RequiresConfirmation(resolved[k].name)) =>
               \/ resolved[k].allowed
               \/ yoloMode
               \/ resolved[k].outcome \in {OutcomeProceedOnce, OutcomeProceedAlways}
        /\ resolved[k].outcome = OutcomeCancel =>
               /\ ~resolved[k].executed
               /\ HistoryKept =>
                      /\ k <= Len(RespTurns(Appended))
                      /\ RespOf(RespTurns(Appended)[k]).Response = CancelledResponse

\* in one call the user cancelled one shell call and let another proceed once
C8_Witness ==
    /\ HistoryKept
    /\ \E k, m \in 1..Len(resolved) :
           /\ resolved[k].outcome = OutcomeCancel
           /\ RequiresConfirmation(resolved[m].name)
           /\ resolved[m].outcome = OutcomeProceedOnce /\ resolved[m].executed

\* C9: with --yolo no tool call of the REPL loop shows a confirmation prompt.
C9_YoloNeverPrompts ==
    yoloMode => \A k \in 1..Len(resolved) : resolved[k].outcome = "none"

\* the tools the user answered proceed_always for, in the current call
AlwaysChosen ==
    {resolved[k].name : k \in {j \in 1..Len(resolved) : resolved[j].outcome = OutcomeProceedAlways}}

\* C10: after a call, a tool is on the allow-list if and only if it was on it
\* before the call or the user answered proceed_always for it during the call.
C10_AllowListMonotonicity ==
    Returned => allowedTools = allowBefore \cup AlwaysChosen

\* a call in which the user let shell proceed once and then always has returned
C10_Witness ==
    /\ Returned
    /\ "shell" \in allowedTools /\ "shell" \notin allowBefore
    /\ \E k \in 1..Len(resolved) : resolved[k].outcome = OutcomeProceedOnce

\* the pending calls of the current iteration that are not resolved yet
Unresolved ==
    IF pc = "tools" THEN Len(pendingToolCallParts) - (next - 1)
    ELSE IF pc = "stream" THEN Len(pendingToolCallParts) ELSE 0

\* was this resolved call prompted for, as the guard of the prompt asks?
PromptedAsUsual(e) ==
    e.name \in RegisteredTools =>
        ((e.outcome # "none") <=> (RequiresConfirmation(e.name) /\ ~e.allowed))

\* C11: a cancelled call does not end the loop over the pending calls: every call
\* before the loop's position is resolved, cancelled or not, calls after a
\* cancelled one are prompted for and executed as any other, and both pairs are
\* in the history in the order of the events.
C11_CancelKeepsBatch ==
    HistoryKept =>
        /\ Len(resolved) = Len(emitted) - Unresolved
        /\ Len(RespTurns(Appended)) = Len(resolved)
        /\ \A k \in 1..Len(resolved) :
               /\ PromptedAsUsual(resolved[k])
               /\ RespOf(RespTurns(Appended)[k]).Name = emitted[k].ToolCall.Name
               /\ RespOf(RespTurns(Appended)[k]).Response = resolved[k].response

\* the first of two calls of one stream was cancelled, the second was executed,
\* and the second stream of the call is open
C11_Witness ==
    /\ pc = "stream" /\ i = 1 /\ streamsOpened = 2
    /\ Len(resolved) = 2
    /\ resolved[1].outcome = OutcomeCancel
    /\ resolved[2].executed
    /\ RespOf(RespTurns(Appended)[1]).Response = CancelledResponse
    /\ RespOf(RespTurns(Appended)[2]).Response = ExecOkResponse

\* C12: a step that resolves a call to an unknown tool, or a call whose Execute
\* failed, does not return from processWithToolLoop: it appends the call and a
\* response holding the error, and goes to the next pending call; the unknown
\* tool is neither prompted for nor executed.
C12_ToolFailuresNotFatal ==
    [][(/\ Len(resolved') = Len(resolved) + 1
        /\ resolved'[Len(resolved')].response
               \in {ExecErrorResponse, UnknownToolResponse(resolved'[Len(resolved')].name)})
       => LET e == resolved'[Len(resolved')]
          IN  /\ pc' = "tools" /\ result' = result
              /\ i' = i /\ next' = next + 1
              /\ pendingToolCallParts' = pendingToolCallParts
              /\ Len(history') = Len(history) + 2
              /\ SubSeq(history', 1, Len(history)) = history
              /\ history'[Len(history) + 1] = Content("model", pendingToolCallParts[next])
              /\ IsFunctionResp(history'[Len(history) + 2])
              /\ history'[Len(history) + 2].Role = "user"
              /\ RespOf(history'[Len(history) + 2]).Response = e.response
              /\ e.response[1] = "error"
              /\ e.name \notin RegisteredTools =>
                     /\ ~e.executed /\ e.outcome = "none"
                     /\ e.response = UnknownToolResponse(e.name)]_vars

\* an unknown tool and a failed Execute were answered in the first iteration and
\* the call went on to the second
C12_Witness ==
    /\ pc = "stream" /\ i = 1
    /\ Len(resolved) = 2
    /\ \E k, m \in 1..2 :
           /\ resolved[k].response = UnknownToolResponse(resolved[k].name)
           /\ resolved[m].executed /\ resolved[m].response = ExecErrorResponse

\* C13: generateStreamWithFallback asks for the given model first and then for
\* the models of the fallback list in list order; it moves on only after a
\* retryable error and whenever a model remains; it returns the stream of the
\* first model that opens, with that model, or the last error once the list is
\* exhausted, or a non-retryable error at once.
C13_FallbackOnOpenFailure ==
    fbOut # <<>> =>
        LET r == fbOut[1]
            list == GetFallbackModels(fbModel)
            n == Len(r.tried)
        IN  /\ n \in 1..Len(list) /\ r.calls = n
            /\ r.tried[1] = fbModel
            /\ \A k \in 2..n : r.tried[k] = list[k]
            /\ \A k \in 1..(n - 1) : fbRes[k] = "retryable"
            /\ fbRes[n] = "retryable" => n = Len(list)
            /\ r.model = r.tried[n]
            /\ r.err <=> fbRes[n] # "ok"

\* the first model failed with a retryable error and the second one opened
C13_Witness ==
    /\ fbOut # <<>>
    /\ fbRes[1] = "retryable" /\ fbRes[2] = "ok"
    /\ ~fbOut[1].err
    /\ fbOut[1].tried = <<FallbackModels[1], FallbackModels[2]>>
    /\ fbOut[1].model = FallbackModels[2]

\* a step in which processWithToolLoop returns nil
ReturnsNil == pc = "stream" /\ pc' = "idle" /\ result' = NoError

\* C14: when a call that was served by a fallback model returns, the caller's
\* model, which the next submit starts with and autoSave stores, is the model
\* that served it.
C14_FallbackSticks ==
    [][(ReturnsNil /\ modelName # effectiveModel)
       => (effectiveModel' = modelName /\ SessionModel' = modelName)]_vars

\* C15: the call does not fail on a retryable error event that is the first
\* event of its stream while a fallback model remains.
C15_RetryOnEarlyStreamError ==
    [][(/\ pc = "stream" /\ chunks = 0 /\ pendingToolCallParts = <<>>
        /\ pc' = "idle" /\ isRetryableStreamError(result'))
       => Len(GetFallbackModels(modelName)) = 1]_vars

\* the model turns of a history
ModelTurns(h) == SelectSeq(h, LAMBDA c : c.Role = "model")

\* C17: when a call against the backend that sends the chunks t1..tn and then
\* done(usage) returns nil, the chunks were written in that order, the history
\* is the one before the call plus the user turn plus one model turn with the
\* text t1..tn, and the token totals are the usage of one stream per successful
\* call.
C17_PlainTurn ==
    [][ReturnsNil =>
          /\ written = script.texts
          /\ Len(history) = Len(histBefore) + 1
          /\ SubSeq(history, 1, Len(histBefore)) = histBefore
          /\ history[Len(history)].Role = "user" /\ IsText(history[Len(history)])
          /\ history' = Append(history, Content("model", TextPart(script.texts)))
          /\ sessionTokens' =
                 [input |-> Usage.PromptTokenCount * Len(ModelTurns(history')),
                  output |-> Usage.CandidatesTokenCount * Len(ModelTurns(history'))]]_vars

\* the second call of a session returned nil for the chunks "a", "b"
C17_Witness ==
    /\ Returned /\ result = NoError
    /\ script.texts = <<"a", "b">>
    /\ Len(history) = 4
    /\ history[4] = Content("model", TextPart(<<"a", "b">>))
    /\ sessionTokens = [input |-> 2 * Usage.PromptTokenCount,
                        output |-> 2 * Usage.CandidatesTokenCount]

\* C18: when the stream gave no text and no tool call and then done, the call
\* returns nil without appending a model turn.
C18_EmptyModelTurn ==
    [][(/\ ReturnsNil /\ streamPos = "done"
        /\ fullResponse = <<>> /\ pendingToolCallParts = <<>>)
       => history' = history]_vars

\* C19: when a stream closes with text and with tool calls, the text is appended
\* as a model turn, ahead of the pairs of the calls.
C19_TextWithToolCallsKept ==
    [][(pc = "stream" /\ pc' = "tools" /\ fullResponse # <<>>)
       => history' = Append(history, Content("model", TextPart(fullResponse)))]_vars

\* C16: everything a one-shot run writes to the output comes from one model:
\* once text of an attempt is written, no error event sends the run to the
\* next fallback model.
C16_CommittedStreams ==
    \A j, k \in 1..Len(rsOut) : rsOut[j].model = rsOut[k].model

\* the value of a message whatever Go types hold it: numbers are numbers, slices
\* are slices
RECURSIVE Norm(_)
Norm(x) ==
    CASE x.go = "string" -> x
      [] x.go \in {"int", "float64"} -> [go |-> "number", v |-> x.v]
      [] x.go = "map" -> GoMap([k \in DOMAIN x.v |-> Norm(x.v[k])])
      [] OTHER -> [go |-> "slice", v |-> [n \in 1..Len(x.v) |-> Norm(x.v[n])]]

SameMessages(a, b) ==
    /\ Len(a) = Len(b)
    /\ \A n \in 1..Len(a) : Norm(a[n]) = Norm(b[n])

\* equal in id, name, model, created_at, updated_at, messages and tokens
SameSession(a, b) ==
    /\ a.ID = b.ID /\ a.Name = b.Name /\ a.Model = b.Model
    /\ a.CreatedAt.wall = b.CreatedAt.wall
    /\ a.UpdatedAt.wall = b.UpdatedAt.wall
    /\ SameMessages(a.Messages, b.Messages)
    /\ a.Tokens = b.Tokens

\* a Save returned nil and the next store operation is a Load
LoadAfterSave ==
    /\ stLast.op = "save" /\ stLast.err = NoError
    /\ stLast'.op = "load"

\* the Load returned the session the Save before it was given, updated_at being
\* the time of that Save
LoadedWhatWasSaved ==
    /\ stLast'.err = NoError
    /\ SameSession(stLast'.session[1], stLast.session[1])
    /\ stLast'.session[1].UpdatedAt.wall = stLast.at

\* Load(s.ID) after Save(s) returns s
RoundTripByID ==
    [][(LoadAfterSave /\ stLast'.key = stLast.session[1].ID) => LoadedWhatWasSaved]_vars

\* Load(s.Name) after Save(s) returns s when the name is a file name
RoundTripByFileName ==
    [][(/\ LoadAfterSave
        /\ stLast'.key = stLast.session[1].Name
        /\ InSessionsDir(stLast.session[1].Name))
       => LoadedWhatWasSaved]_vars

\* C20: Load(s.ID) after Save(s) returns a session equal to s, with updated_at the
\* time of the save, and so does Load(s.Name) when s has a name.
C20_StoreRoundTrip ==
    [][(/\ LoadAfterSave
        /\ \/ stLast'.key = stLast.session[1].ID
           \/ stLast.session[1].Name # <<>> /\ stLast'.key = stLast.session[1].Name)
       => LoadedWhatWasSaved]_vars

\* /load of the session's id follows at once an autoSave that succeeded
LoadAfterAutoSave ==
    /\ stLast.op = "save" /\ stLast.err = NoError
    /\ stLast'.op = "load" /\ stLast'.err = NoError
    /\ stLast'.key = stLast.session[1].ID

TextOnly(h) == \A m \in 1..Len(h) : IsText(h[m])

\* a conversation of text turns comes back as it was saved
ResumeRestoresText ==
    [][(LoadAfterAutoSave /\ TextOnly(history))
       => (history' = history /\ sessionTokens' = sessionTokens)]_vars

\* C21: auto-saving a history and then resuming the session yields a history equal
\* to the saved one part for part, function_call and function_response parts
\* included, and token counters equal to the saved ones.
C21_ResumeRestores ==
    [][LoadAfterAutoSave => (history' = history /\ sessionTokens' = sessionTokens)]_vars

\* the file named b is the primary file of the session with id b
IsPrimary(fs, b) == b \in DOMAIN fs /\ UnmarshalSession(fs[b]).ID = b

\* a Save or Rename returned nil for a session other than b, under the name b
SavedUnderName(b) ==
    /\ stLast'.op \in {"save", "rename"}
    /\ stLast'.err = NoError
    /\ stLast'.session[1].ID # b
    /\ stLast'.session[1].Name = b

\* C22: saving a session under a name equal to the id of another stored session
\* leaves that session's primary file with its content.
C22_AliasClashKeepsPrimary ==
    [][\A b \in DOMAIN files :
          (IsPrimary(files, b) /\ SavedUnderName(b)) => (IsPrimary(files', b) /\ files'[b] = files[b])]_vars

\* a Save returned nil and wrote the session over the primary file of a session
\* with the same id
SavedOverPrimary ==
    /\ stLast'.op = "save" /\ stLast'.err = NoError
    /\ IsPrimary(files, stLast'.session[1].ID)

\* C23: ids are unique: saving a session never overwrites the primary file of a
\* different session, one made by another NewSession call.
C23_UniqueSessionIDs ==
    [][SavedOverPrimary
       => UnmarshalSession(files[stLast'.session[1].ID]).CreatedAt.wall
            = stLast'.session[1].CreatedAt.wall]_vars

\* the sessions stored: what the primary files hold
StoredSessions(fs) == {UnmarshalSession(fs[f]) : f \in {g \in DOMAIN fs : IsPrimary(fs, g)}}

\* the ids the files of the store carry
StoredIDs(fs) == {UnmarshalSession(fs[f]).ID : f \in DOMAIN fs}

\* List returns every id of the store once, the newest entry first
ListCollapsesAliases ==
    [][stLast'.op = "list"
       => LET listed == stLast'.session
          IN  /\ {listed[n].ID : n \in 1..Len(listed)} = StoredIDs(files)
              /\ \A m, n \in 1..Len(listed) : m < n =>
                    /\ listed[m].ID # listed[n].ID
                    /\ listed[m].UpdatedAt.wall >= listed[n].UpdatedAt.wall]_vars

\* LoadLatest returns the stored session with the highest updated_at
LatestIsNewest ==
    [][(stLast'.op = "latest" /\ StoredSessions(files) # {})
       => /\ stLast'.err = NoError
          /\ \A x \in StoredSessions(files) :
                stLast'.session[1].UpdatedAt.wall >= x.UpdatedAt.wall]_vars

\* C24: List returns each stored session id once, ordered by updated_at
\* descending, and LoadLatest returns the session with the highest updated_at.
C24_Listing ==
    [][/\ stLast'.op = "list"
          => LET listed == stLast'.session
             IN  /\ {listed[n].ID : n \in 1..Len(listed)} = StoredIDs(files)
                 /\ \A m, n \in 1..Len(listed) : m < n =>
                       /\ listed[m].ID # listed[n].ID
                       /\ listed[m].UpdatedAt.wall >= listed[n].UpdatedAt.wall
       /\ (stLast'.op = "latest" /\ StoredSessions(files) # {})
          => /\ stLast'.err = NoError
             /\ \A x \in StoredSessions(files) :
                   stLast'.session[1].UpdatedAt.wall >= x.UpdatedAt.wall]_vars

\* the files <k>*.json of the store
Matching(fs, k) == {f \in DOMAIN fs : InSessionsDir(k) /\ IsPrefix(PathFile(k), f)}

\* the Load just made returned the session of file f
LoadedFile(f) ==
    /\ stLast'.err = NoError
    /\ stLast'.session = <<UnmarshalSession(files[f])>>
    /\ currentID' = UnmarshalSession(files[f]).ID

\* C25: Load(k) loads <k>.json when it exists; otherwise zero matches of <k>*.json
\* are a not-found error, several an ambiguity error, and a single match is loaded;
\* a failed Load leaves the store and the current id unchanged.
C25_LoadResolution ==
    [][stLast'.op = "load"
       => LET k == stLast'.key
              exact == InSessionsDir(k) /\ PathFile(k) \in DOMAIN files
              matches == Matching(files, k)
          IN  /\ exact => LoadedFile(PathFile(k))
              /\ (~exact /\ matches = {}) => stLast'.err = ErrNotFound
              /\ (~exact /\ Cardinality(matches) > 1) => stLast'.err = ErrMultiple
              /\ (~exact /\ Cardinality(matches) = 1) => \E f \in matches : LoadedFile(f)
              /\ stLast'.err # NoError => (files' = files /\ currentID' = currentID)]_vars

\* a Load found several sessions for its key
C25_Witness == stLast.op = "load" /\ stLast.err = ErrMultiple

(***************************************************************************)
(* Properties of the TUI                                                   *)
(***************************************************************************)
\* C26: one message sent in the TUI is followed by at most maxIterations (10)
\* GenerateStream calls, also against the backend that answers every call with a
\* tool call
C26_TuiIterationBound == appSubmits = 1 => appCalls <= maxIterations

\* Update takes a streamErrorMsg off the queue
HandlesStreamError ==
    /\ appMsgs # <<>>
    /\ Head(appMsgs).type = "streamErrorMsg"
    /\ appMsgs' = Tail(appMsgs)

\* the only message of the run so far, and the conversation was never cleared
SingleTurn == appSubmits = 1 /\ appClears = 0

\* C27: when a backend call for a message fails in the TUI (GenerateStream error or
\* error event, on the first or a later call), handling the failure truncates the
\* history to its length before the message was added
C27_TuiRollback ==
    [][(SingleTurn /\ HandlesStreamError) => appHistory' = SubSeq(appHistory, 1, appLenBefore)]_vars

\* the calls of the history that are followed by their response, in order
PairedCalls(h) ==
    LET at == SelectSeq([k \in 1..Len(h) |-> k],
                        LAMBDA k : /\ IsFunctionCall(h[k])
                                   /\ k < Len(h)
                                   /\ IsFunctionResp(h[k + 1])
                                   /\ h[k + 1].Parts[1].FunctionResp[1].Name
                                        = h[k].Parts[1].FunctionCall[1].Name)
    IN  [k \in 1..Len(at) |-> h[at[k]].Parts[1].FunctionCall[1]]

\* C28: when a stream of the TUI emits several tool_call events, every emitted call
\* has its function_call/function_response pair in the history, in emission order,
\* before the next GenerateStream call is made
C28_TuiEveryToolCall ==
    [][(SingleTurn /\ appCalls' = appCalls + 1) => PairedCalls(appHistory) = appEmitted]_vars

\* Update takes the toolResultMsg of a cancelled confirmation off the queue
HandlesCancelled ==
    /\ appMsgs # <<>>
    /\ Head(appMsgs).type = "toolResultMsg"
    /\ Head(appMsgs).cancelled
    /\ appMsgs' = Tail(appMsgs)

\* C29: after the user cancelled the confirmation of a tool call in the TUI and the
\* cancelled response was appended, a further backend call is started, so that the
\* turn does not end on the function_response
C29_TuiContinuesAfterCancel ==
    [][HandlesCancelled => (appCmds' = Append(appCmds, StreamCmd) /\ appLoading')]_vars

\* a streaming or tool-execution command is running
InFlight == appCmds # <<>>

\* a key handler ran: Enter with a message, or ClearChat
KeyAction == appSubmits' # appSubmits \/ appClears' # appClears

\* C30: while a turn of the TUI is in flight no key handler (a second Enter, a
\* clear) changes App.history
C30_TuiSingleWriter == [][(InFlight /\ KeyAction) => appHistory' = appHistory]_vars

\* no command of the TUI is running and no message waits for Update
TuiIdle == appCmds = <<>> /\ appMsgs = <<>>

\* C31: in the TUI the usage of every done event the backend emitted is added to the
\* token totals, also the usage of a stream that emitted a tool call; the totals are
\* compared while the session is the one the run started with
C31_TuiTokenAccounting ==
    (TuiIdle /\ appClears = 0) => appTokens = [input |-> appDone * Usage.PromptTokenCount,
                            output |-> appDone * Usage.CandidatesTokenCount]

(***************************************************************************)
(* Properties of the notifications, the store, the fallback list           *)
(***************************************************************************)
\* displayToolCall: one notification for every tool_call event read
ToolCallsDisplayed == [k \in 1..Len(emitted) |-> emitted[k].ToolCall.Name]

\* displayToolResult: one notification after every Execute
ToolResultsDisplayed ==
    LET ran == SelectSeq(resolved, LAMBDA r : r.executed)
    IN  [k \in 1..Len(ran) |-> ran[k].name]

\* a result notification never comes before the notification of its call
ResultsFollowCalls ==
    /\ Len(ToolResultsDisplayed) <= Len(ToolCallsDisplayed)
    /\ \A k \in 1..Len(resolved) : resolved[k].name = ToolCallsDisplayed[k]

\* C32: in the REPL loop every tool-call notification is followed by exactly one
\* result notification for that call, on the execute, cancel and unknown-tool paths
\* alike, and never preceded by it
C32_EveryCallFinished ==
    /\ ResultsFollowCalls
    /\ (pc = "idle" /\ result = NoError) => ToolResultsDisplayed = ToolCallsDisplayed

\* this step is a Delete that succeeded
Deleted == stOps' = stOps + 1 /\ stLast'.op = "delete" /\ stLast'.err = NoError

\* the id of the session the file f of fs holds
FileID(fs, f) == UnmarshalSession(fs[f]).ID

\* after Delete no file holds the deleted session any more
DeleteRemovesAll ==
    [][Deleted => \A f \in DOMAIN files' : FileID(files', f) # stLast'.session[1].ID]_vars

\* Delete leaves the files of the other sessions as they were
DeleteKeepsOthers ==
    [][Deleted => \A f \in DOMAIN files :
                     FileID(files, f) # stLast'.session[1].ID
                        => (f \in DOMAIN files' /\ files'[f] = files[f])]_vars

\* C33: after Manager.Delete(k) succeeded for a session, neither its primary file nor
\* any alias file of it exists, and the files of every other session are unchanged
C33_DeleteExactlyOne ==
    [][Deleted => /\ \A f \in DOMAIN files' : FileID(files', f) # stLast'.session[1].ID
                  /\ \A f \in DOMAIN files :
                        FileID(files, f) # stLast'.session[1].ID
                           => (f \in DOMAIN files' /\ files'[f] = files[f])]_vars

\* for a model of the fallback list, the list returned starts at that model and
\* goes on in FallbackModels order
FallbackListOfListed ==
    LET at == IndexOf(FallbackModels, fbModel)
        list == GetFallbackModels(fbModel)
    IN  (fbOut # <<>> /\ at > 0)
            => /\ list = SubSeq(FallbackModels, at, Len(FallbackModels))
               /\ list[1] = fbModel
               /\ \A k \in 1..Len(fbOut[1].tried) : fbOut[1].tried[k] = FallbackModels[at + k - 1]

\* C34: GetFallbackModels(m) starts with m and goes on with the models that follow m
\* in FallbackModels; a fallback attempt never skips FallbackModels[0] for a model
\* outside the list and never tries a model ranked before m
C34_FallbackListFromModel ==
    LET at == IndexOf(FallbackModels, fbModel)
        list == GetFallbackModels(fbModel)
    IN  fbOut # <<>>
            => /\ list[1] = fbModel
               /\ at > 0 => list = SubSeq(FallbackModels, at, Len(FallbackModels))
               /\ (at = 0 /\ Len(fbOut[1].tried) > 1) => fbOut[1].tried[2] = FallbackModels[1]

(***************************************************************************)
(* Properties of the confirmation prompt                                   *)
(***************************************************************************)
\* the prompt program ended on a key
PromptEnded == promptModel.pos = "returned" /\ ~promptModel.returned[1].err

\* the key that ended it, the button highlighted then, and the outcome returned
LastKey == promptModel.keys[Len(promptModel.keys)]
PromptOutcome == promptModel.returned[1].outcome

\* n, a and Enter do what the help text says
OtherKeysAsLabelled ==
    PromptEnded =>
        /\ LastKey \in {"n", "N"} => PromptOutcome = OutcomeCancel
        /\ LastKey \in {"a", "A"} => PromptOutcome = OutcomeProceedAlways
        /\ LastKey = "enter" => PromptOutcome = ButtonOutcome(promptModel.m.selectedBtn)

\* C35: whichever button is highlighted, y or Y ends the prompt with proceed_once,
\* n or N with cancel, a or A with proceed_always, and Enter with the outcome of the
\* highlighted button
C35_ConfirmationKeys ==
    PromptEnded =>
        /\ LastKey \in {"y", "Y"} => PromptOutcome = OutcomeProceedOnce
        /\ LastKey \in {"n", "N"} => PromptOutcome = OutcomeCancel
        /\ LastKey \in {"a", "A"} => PromptOutcome = OutcomeProceedAlways
        /\ LastKey = "enter" => PromptOutcome = ButtonOutcome(promptModel.m.selectedBtn)

\* the keys that approve: y, Enter on a button, a
ApprovingKeys == {"y", "Y", "enter", "a", "A"}

\* C38: the prompt's outcome is cancel from the start and until an approving key is
\* pressed; q, esc, ctrl+c and a failure of the prompt program yield cancel, so that
\* no tool is approved without an approving key press
C38_FailSafeDefault ==
    /\ promptModel.pos = "running" => promptModel.m.outcome = OutcomeCancel
    /\ promptModel.pos = "returned" =>
          /\ promptModel.returned[1].err => PromptOutcome = OutcomeCancel
          /\ PromptEnded =>
                /\ LastKey \in {"q", "esc", "ctrl+c"} => PromptOutcome = OutcomeCancel
                /\ PromptOutcome # OutcomeCancel => LastKey \in ApprovingKeys

\* the prompt was left with esc while Always was highlighted
C38_Witness ==
    /\ PromptEnded
    /\ LastKey = "esc"
    /\ promptModel.m.selectedBtn = 2
    /\ PromptOutcome = OutcomeCancel

(***************************************************************************)
(* Properties of the shell tool                                            *)
(***************************************************************************)
\* the timeout the shell call took
ShellDone == shellCall.pos = "done"
EffectiveTimeout == shellCall.timeout[1]

\* the timeout is an integer from 1 to 300
TimeoutInRange == ShellDone => EffectiveTimeout \in 1..MaxTimeout

\* what the timeout argument calls for
ExpectedTimeout(arg) ==
    IF arg.go # "float64" THEN DefaultTimeout
    ELSE IF arg.range = "below" THEN DefaultTimeout
    ELSE IF arg.range = "above" THEN MaxTimeout
    ELSE IF Truncated(arg.halves) <= 0 THEN DefaultTimeout
    ELSE IF Truncated(arg.halves) > MaxTimeout THEN MaxTimeout
    ELSE Truncated(arg.halves)

\* C36: for every timeout argument of the shell tool the timeout taken is an integer
\* in 1..300: 60 when absent, non-numeric or when the truncated value is <= 0, 300
\* when it exceeds 300, and the truncated value otherwise
C36_ShellTimeoutClamp ==
    ShellDone => /\ EffectiveTimeout \in 1..MaxTimeout
                 /\ EffectiveTimeout = ExpectedTimeout(shellCall.args[1])

(***************************************************************************)
(* Properties of what a failed call and a change of session leave behind   *)
(***************************************************************************)
\* processWithToolLoop returns an error in this step
FailureReturn == pc # "idle" /\ pc' = "idle" /\ result' # NoError

\* C37: when processWithToolLoop fails, only the history is restored: the allow-list
\* entries added by proceed_always during the call, the token usage of its done
\* events and the tools it executed stay as they were when the error came up
C37_RollbackHistoryOnly ==
    [][FailureReturn =>
          /\ history' = histBefore
          /\ allowedTools' = allowedTools
          /\ sessionTokens' = sessionTokens
          /\ SubSeq(resolved', 1, Len(resolved)) = resolved]_vars

\* the first call failed after a tool was allowed for good and executed and after a
\* done event with usage was read
C37_Witness ==
    /\ Failed /\ submits = 1
    /\ history = histBefore
    /\ allowedTools # allowBefore
    /\ sessionTokens.input > 0
    /\ \E k \in 1..Len(resolved) : resolved[k].executed

ReplAllowListGrows ==
    [][allowedTools \subseteq allowedTools']_vars

\* the cursor is an offset into the value, the history index is -1 or an index
InputInBounds ==
    /\ inputModel.cursor \in 0..Len(inputModel.value)
    /\ inputModel.historyIdx \in -1..(Len(inputModel.history) - 1)

\* the offsets the operations slice the value at and the index they read the history
\* at, taken in the current state, are in range
InputSlicesInRange ==
    /\ inputModel.cursor > 0 => WordStart(inputModel) \in 0..(inputModel.cursor - 1)
    /\ inputModel.cursor < Len(inputModel.value) =>
          inputModel.cursor + 1 \in 0..Len(inputModel.value)
    /\ Len(inputModel.history) # 0 =>
          HistoryUpIdx(inputModel) \in 0..(Len(inputModel.history) - 1)
    /\ (inputModel.historyIdx # -1 /\ inputModel.historyIdx < Len(inputModel.history) - 1) =>
          inputModel.historyIdx + 1 \in 0..(Len(inputModel.history) - 1)

====
